---- MODULE Spec2Model ----
(***************************************************************************)
(* Workflow execution engine of lavaback:                                  *)
(*   app/services/workflow_executor.py  (WorkflowExecutor)                 *)
(*   app/services/action_registry.py    (ActionRegistry, built-in actions) *)
(*   app/api/workflows.py               (execute_workflow endpoint)        *)
(*   app/models/workflow.py             (WorkflowExecution row)            *)
(***************************************************************************)
EXTENDS Integers, Sequences, FiniteSets, TLC

(***************************************************************************)
(* Bounds of the model.                                                    *)
(***************************************************************************)
\* Number of execute requests in one behaviour of the concurrent specification.
MaxRuns == 2
\* Stand-in for the interpreter's recursion limit (sys.getrecursionlimit()):
\* nesting depth of _execute_node at which Python raises RecursionError.
MaxDepth == 8
\* Length of the generated edge lists.
MaxEdges == 3
\* Number of distinct object addresses id() may return.
NumAddrs == 2

Runs == 1..MaxRuns
Addrs == 1..NumAddrs

(***************************************************************************)
(* JSON / Python values.  Every value is a record with the same fields, so *)
(* that any two values can be compared: k is the Python type.              *)
(***************************************************************************)
VNone == [k |-> "none", n |-> 0, s |-> "", d |-> << >>]
VNum(i) == [k |-> "num", n |-> i, s |-> "", d |-> << >>]
VStr(str) == [k |-> "str", n |-> 0, s |-> str, d |-> << >>]
VBool(b) == [k |-> "bool", n |-> IF b THEN 1 ELSE 0, s |-> "", d |-> << >>]
\* a dict literal built by a handler: d is a function from keys to values
VDict(f) == [k |-> "dict", n |-> 0, s |-> "", d |-> f]
\* a JSON array: d is the sequence of its items
VList(items) == [k |-> "list", n |-> 0, s |-> "", d |-> items]

\* Python None as a node id / action id / handle / dict key
None == "<None>"

\* dict.get(key, default) on a function-shaped dict
Get(dict, key, default) == IF key \in DOMAIN dict THEN dict[key] ELSE default

\* An insertion-ordered dict (the variables store): keys in insertion order,
\* val the mapping.  {} is EmptyDict.
EmptyDict == [keys |-> << >>, val |-> << >>]
DictHas(dct, key) == \E i \in 1..Len(dct.keys) : dct.keys[i] = key
DictGet(dct, key, default) == IF DictHas(dct, key) THEN dct.val[key] ELSE default
\* dct[key] = value : an existing key keeps its position
DictSet(dct, key, value) ==
    IF DictHas(dct, key)
    THEN [dct EXCEPT !.val = [kk \in DOMAIN dct.val |-> IF kk = key THEN value ELSE dct.val[kk]]]
    ELSE [keys |-> Append(dct.keys, key),
          val |-> [kk \in (DOMAIN dct.val) \cup {key} |->
                      IF kk = key THEN value ELSE dct.val[kk]]]

\* str(x) / f"{x}" of a node id or action id
PyStr(x) == IF x = None THEN "None" ELSE x

\* truthiness of a value (bool(x))
Truthy(v) ==
    CASE v.k = "none" -> FALSE
      [] v.k = "num"  -> v.n # 0
      [] v.k = "bool" -> v.n # 0
      [] v.k = "str"  -> v.s # ""
      [] OTHER        -> DOMAIN v.d # {}

\* left == right in Python: bool is a subtype of int, so True == 1
PyEq(a, b) ==
    IF a.k \in {"num", "bool"} /\ b.k \in {"num", "bool"} THEN a.n = b.n
    ELSE a = b


(***************************************************************************)
(* Exceptions.  msg models the f-string of the message as its pieces.      *)
(***************************************************************************)
Exc(type, msg) == [type |-> type, msg |-> msg]
NoExc == Exc("", << >>)
\* classes that derive from Exception (what "except Exception" catches)
ExceptionTypes == {"Exception", "ValueError", "TypeError", "AttributeError", "RecursionError"}

\* the return value or raise of one handler call, and the variables store after it
Returned(result, variables) == [raised |-> FALSE, exc |-> NoExc, result |-> result, variables |-> variables]
Raised(exc, variables) == [raised |-> TRUE, exc |-> exc, result |-> << >>, variables |-> variables]

(***************************************************************************)
(* Strings.  Strings are atomic; the operations the handlers use on them   *)
(* are defined on the strings of the model.                                *)
(***************************************************************************)
VarNames == {"x", "y"}
Prefixes == {"", "hi "}
Wrap(name) == "{{" \o name \o "}}"
\* str(value)
StrOf(v) ==
    CASE v.k = "none" -> "None"
      [] v.k = "num"  -> ToString(v.n)
      [] v.k = "bool" -> IF v.n = 1 THEN "True" ELSE "False"
      [] v.k = "str"  -> v.s
      [] OTHER        -> "{...}"
\* s.replace("{{key}}", rep)
Replace(str, key, rep) ==
    IF \E pre \in Prefixes : str = pre \o Wrap(PyStr(key))
    THEN (CHOOSE pre \in Prefixes : str = pre \o Wrap(PyStr(key))) \o rep
    ELSE str
\* s.startswith("{{") and s.endswith("}}")
IsWrapped(str) == \E name \in VarNames \cup {"zz"} : str = Wrap(name)
\* s[2:-2]
Unwrap(str) == CHOOSE name \in VarNames \cup {"zz"} : str = Wrap(name)
\* float(s) succeeds on these strings
NumericStrings == {"5", "3"}
FloatOfStr(str) == IF str = "5" THEN 5 ELSE 3
\* needle in hay
SubstringPairs == {<<"abc", "b">>, <<"hi 1", "1">>}
Contains(hay, needle) == needle = "" \/ hay = needle \/ <<hay, needle>> \in SubstringPairs

(***************************************************************************)
(* Built-in action handlers (action_registry.py, "ACTION HANDLERS").       *)
(* Each takes the variables store of the context and the node's config.    *)
(***************************************************************************)
\* the node's config dict as an object: id is its address (id(config)), d its content
Config(addr, d) == [id |-> addr, d |-> d]
\* config.get(key, default)
ConfigGet(config, key, default) == Get(config.d, key, default)

RECURSIVE ReplaceAll(_, _, _)
\* for key, value in variables.items(): s = s.replace("{{key}}", str(value))
ReplaceAll(str, variables, i) ==
    IF i > Len(variables.keys) THEN str
    ELSE ReplaceAll(Replace(str, variables.keys[i], StrOf(variables.val[variables.keys[i]])),
                    variables, i + 1)

_action_log(variables, config) ==
    LET message == ConfigGet(config, "message", VStr(""))
    IN IF message.k # "str"
       THEN IF Len(variables.keys) = 0
            THEN Returned(("logged" :> VBool(TRUE)) @@ ("_log" :> message), variables)
            ELSE Raised(Exc("AttributeError", <<"object has no attribute 'replace'">>), variables)
       ELSE Returned(("logged" :> VBool(TRUE)) @@
                     ("_log" :> VStr(ReplaceAll(message.s, variables, 1))), variables)

\* variant: the value is written into a copy of the store, the store itself is untouched
_action_set_variable_on_copy(variables, config) ==
    Returned("success" :> VBool(TRUE), variables)
_action_set_variable(variables, config) ==
    LET name == ConfigGet(config, "name", VNone)
        value == ConfigGet(config, "value", VNone)
    IN IF name.k = "dict"
       THEN Raised(Exc("TypeError", <<"unhashable type: 'dict'">>), variables)
       ELSE Returned("success" :> VBool(TRUE),
                     DictSet(variables, IF name.k = "str" THEN name.s
                                        ELSE IF name.k = "none" THEN None
                                        ELSE StrOf(name), value))

RECURSIVE replace_vars(_, _)
replace_vars(obj, variables) ==
    IF obj.k = "str" THEN VStr(ReplaceAll(obj.s, variables, 1))
    ELSE IF obj.k = "dict"
         THEN VDict([kk \in DOMAIN obj.d |-> replace_vars(obj.d[kk], variables)])
         ELSE IF obj.k = "list"
              THEN VList([i \in DOMAIN obj.d |-> replace_vars(obj.d[i], variables)])
              ELSE obj

_action_transform(variables, config) ==
    LET template == ConfigGet(config, "template", VDict(<< >>))
    IN Returned("result" :> replace_vars(template, variables), variables)

\* message_id is f"msg_{id(config)}"
_action_send_email(variables, config) ==
    Returned(("sent" :> VBool(TRUE)) @@ ("message_id" :> VStr("msg_" \o ToString(config.id))), variables)

\* variant: the push handler derives an id from the config object as email.send does
_action_push_notification_with_id(variables, config) ==
    Returned(("sent" :> VBool(TRUE)) @@ ("message_id" :> VStr("msg_" \o ToString(config.id))), variables)
_action_push_notification(variables, config) ==
    Returned("sent" :> VBool(TRUE), variables)

\* float(v): the number, or the exception float() raises
CanFloat(v) == v.k \in {"num", "bool"} \/ (v.k = "str" /\ v.s \in NumericStrings)
Float(v) == IF v.k = "str" THEN FloatOfStr(v.s) ELSE v.n
FloatError(v) ==
    IF v.k = "str"
    THEN Exc("ValueError", <<"could not convert string to float: ", v.s>>)
    ELSE Exc("TypeError", <<"float() argument must be a string or a number">>)

\* variant: the lookup has no default, an absent variable resolves to None
ResolveOrNone(operand, variables) ==
    IF operand.k = "str" /\ IsWrapped(operand.s)
    THEN DictGet(variables, Unwrap(operand.s), VNone)
    ELSE operand
\* operand resolution of logic.condition
Resolve(operand, variables) ==
    IF operand.k = "str" /\ IsWrapped(operand.s)
    THEN DictGet(variables, Unwrap(operand.s), operand)
    ELSE operand

\* variant: an operator the handler does not know is rejected, and so is a missing one
_action_condition_rejecting(variables, config) ==
    LET left == Resolve(ConfigGet(config, "left", VNone), variables)
        operator == ConfigGet(config, "operator", VNone)
        right == Resolve(ConfigGet(config, "right", VNone), variables)
        Result(b) == Returned("result" :> VBool(b), variables)
    IN CASE operator = VStr("==") -> Result(PyEq(left, right))
         [] operator = VStr("!=") -> Result(~PyEq(left, right))
         [] operator \in {VStr(">"), VStr("<"), VStr(">="), VStr("<=")} ->
              IF ~CanFloat(left) THEN Raised(FloatError(left), variables)
              ELSE IF ~CanFloat(right) THEN Raised(FloatError(right), variables)
              ELSE Result(CASE operator = VStr(">")  -> Float(left) > Float(right)
                            [] operator = VStr("<")  -> Float(left) < Float(right)
                            [] operator = VStr(">=") -> Float(left) >= Float(right)
                            [] OTHER                 -> Float(left) <= Float(right))
         [] operator = VStr("contains") -> Result(Contains(StrOf(left), StrOf(right)))
         [] OTHER -> Raised(Exc("ValueError", <<"unknown operator">>), variables)
_action_condition(variables, config) ==
    LET left == Resolve(ConfigGet(config, "left", VNone), variables)
        operator == ConfigGet(config, "operator", VStr("=="))
        right == Resolve(ConfigGet(config, "right", VNone), variables)
        Result(b) == Returned("result" :> VBool(b), variables)
    IN CASE operator = VStr("==") -> Result(PyEq(left, right))
         [] operator = VStr("!=") -> Result(~PyEq(left, right))
         [] operator \in {VStr(">"), VStr("<"), VStr(">="), VStr("<=")} ->
              IF ~CanFloat(left) THEN Raised(FloatError(left), variables)
              ELSE IF ~CanFloat(right) THEN Raised(FloatError(right), variables)
              ELSE Result(CASE operator = VStr(">")  -> Float(left) > Float(right)
                            [] operator = VStr("<")  -> Float(left) < Float(right)
                            [] operator = VStr(">=") -> Float(left) >= Float(right)
                            [] OTHER                 -> Float(left) <= Float(right))
         [] operator = VStr("contains") -> Result(Contains(StrOf(left), StrOf(right)))
         [] OTHER -> Result(FALSE)

\* logic.delay after asyncio.sleep has returned
_action_delay(variables, config) ==
    Returned("waited" :> VBool(TRUE), variables)

\* variant: no try block around the request, a transport error propagates
_action_http_request_raising(variables, config, ok) ==
    IF ok
    THEN Returned(("status" :> VNum(200)) @@ ("data" :> VDict(<< >>)), variables)
    ELSE Raised(Exc("Exception", <<"Cannot connect to host">>), variables)
\* http.request after the call: ok is whether the transport succeeded
_action_http_request(variables, config, ok) ==
    IF ok
    THEN Returned(("status" :> VNum(200)) @@ ("data" :> VDict(<< >>)), variables)
    ELSE Returned(("status" :> VNum(0)) @@ ("data" :> VNone) @@
                  ("error" :> VStr("Cannot connect to host")), variables)


(***************************************************************************)
(* The action catalog (ActionRegistry).                                    *)
(***************************************************************************)
ActionDefinition(id, category, handler) == [id |-> id, category |-> category, handler |-> handler]

\* variant: an id that is already registered keeps its first definition
register_if_absent(actions, action) ==
    IF action.id \in DOMAIN actions THEN actions
    ELSE [id \in (DOMAIN actions) \cup {action.id} |-> IF id = action.id THEN action ELSE actions[id]]
\* ActionRegistry.register: self._actions[action.id] = action
register(actions, action) ==
    [id \in (DOMAIN actions) \cup {action.id} |-> IF id = action.id THEN action ELSE actions[id]]

\* the definitions _register_builtin_actions registers, in its order
BuiltinActions ==
    << ActionDefinition("data.log", "utility", "_action_log"),
       ActionDefinition("data.set_variable", "utility", "_action_set_variable"),
       ActionDefinition("data.transform", "data", "_action_transform"),
       ActionDefinition("email.send", "communication", "_action_send_email"),
       ActionDefinition("notification.push", "communication", "_action_push_notification"),
       ActionDefinition("logic.condition", "logic", "_action_condition"),
       ActionDefinition("logic.delay", "utility", "_action_delay"),
       ActionDefinition("http.request", "external", "_action_http_request") >>

RECURSIVE RegisterAll(_, _, _)
RegisterAll(actions, defs, i) ==
    IF i > Len(defs) THEN actions
    ELSE RegisterAll(register(actions, defs[i]), defs, i + 1)

\* ActionRegistry.__init__: self._actions = {} ; self._register_builtin_actions()
_register_builtin_actions == RegisterAll(<< >>, BuiltinActions, 1)

\* ActionRegistry.get: self._actions.get(action_id); None is NoAction
NoAction == ActionDefinition(None, None, None)
\* variant: an unregistered id falls back to the data.log definition
get_with_fallback(actions, action_id) == Get(actions, action_id, actions["data.log"])
get(actions, action_id) == Get(actions, action_id, NoAction)

\* ActionRegistry.list_all: the projection of every definition in self._actions.values().
\* The catalog is kept without the order of its dict, and so is the list.
list_all(actions) ==
    { [id |-> actions[id].id, category |-> actions[id].category] : id \in DOMAIN actions }

\* ActionRegistry.list_by_category: per category, the projections of its definitions
list_by_category(actions) ==
    [category \in { actions[id].category : id \in DOMAIN actions } |->
        { [id |-> actions[id].id] : id \in { i \in DOMAIN actions : actions[i].category = category } }]

\* variant: get answers with setdefault, an id that is looked up and missing is entered
\* into the catalog
ReadInserting(actions, method, action_id) ==
    IF method = "get" /\ action_id \notin DOMAIN actions
    THEN [actions |-> [id \in (DOMAIN actions) \cup {action_id} |->
                          IF id = action_id THEN NoAction ELSE actions[id]],
          returned |-> NoAction]
    ELSE [actions |-> actions,
          returned |-> CASE method = "get" -> get(actions, action_id)
                         [] method = "list_all" -> list_all(actions)
                         [] OTHER -> list_by_category(actions)]
\* one call of get, list_all or list_by_category: self._actions after the call, and
\* the value returned
Read(actions, method, action_id) ==
    [actions |-> actions,
     returned |-> CASE method = "get" -> get(actions, action_id)
                    [] method = "list_all" -> list_all(actions)
                    [] OTHER -> list_by_category(actions)]

\* handlers that reach an await that suspends the coroutine
Suspends(handler) == handler \in {"_action_delay", "_action_http_request"}

\* await action.handler(self.context, config)
CallHandler(handler, variables, config, ok) ==
    CASE handler = "_action_log"               -> _action_log(variables, config)
      [] handler = "_action_set_variable"      -> _action_set_variable(variables, config)
      [] handler = "_action_transform"         -> _action_transform(variables, config)
      [] handler = "_action_send_email"        -> _action_send_email(variables, config)
      [] handler = "_action_push_notification" -> _action_push_notification(variables, config)
      [] handler = "_action_condition"         -> _action_condition(variables, config)
      [] handler = "_action_delay"             -> _action_delay(variables, config)
      [] OTHER                                 -> _action_http_request(variables, config, ok)

(***************************************************************************)
(* Workflow graphs: parsed node and edge lists.                            *)
(***************************************************************************)
Node(id, type, actionId, config) == [id |-> id, type |-> type, actionId |-> actionId, config |-> config]
Edge(source, target, sourceHandle) == [source |-> source, target |-> target, sourceHandle |-> sourceHandle]

\* variant: the adjacency keeps one edge per source and handle, the first one listed
_build_adjacency_one_per_handle(edges, source) ==
    LET at == { i \in 1..Len(edges) :
                  /\ edges[i].source = source
                  /\ \A j \in 1..(i - 1) :
                        ~(edges[j].source = source /\ edges[j].sourceHandle = edges[i].sourceHandle) }
    IN SelectSeq([i \in 1..Len(edges) |-> IF i \in at THEN edges[i] ELSE Edge(None, None, None)],
                 LAMBDA e : e.source = source)
\* variant: the adjacency of a source is a set, an edge listed twice is kept once
_build_adjacency_distinct(edges, source) ==
    LET at == { i \in 1..Len(edges) :
                  edges[i].source = source /\ \A j \in 1..(i - 1) : edges[j] # edges[i] }
    IN SelectSeq([i \in 1..Len(edges) |-> IF i \in at THEN edges[i] ELSE Edge(None, None, None)],
                 LAMBDA e : e.source = source)
\* variant: the edges of a source are kept last first
_build_adjacency_reversed(edges, source) ==
    LET out == SelectSeq(edges, LAMBDA e : e.source = source)
    IN [i \in 1..Len(out) |-> out[Len(out) + 1 - i]]
\* WorkflowExecutor._build_adjacency, read at one source: adjacency.get(source, [])
_build_adjacency(edges, source) == SelectSeq(edges, LAMBDA e : e.source = source)

\* variant: the loop keeps the last trigger node it meets instead of returning the first
_find_trigger_node_last(nodes) ==
    IF \E i \in 1..Len(nodes) : nodes[i].type = "trigger"
    THEN CHOOSE i \in 1..Len(nodes) :
            /\ nodes[i].type = "trigger"
            /\ \A j \in (i + 1)..Len(nodes) : nodes[j].type # "trigger"
    ELSE 0
\* variant: the first node of the list is taken as the start node whatever its type
_find_trigger_node_first(nodes) == IF Len(nodes) > 0 THEN 1 ELSE 0
\* WorkflowExecutor._find_trigger_node: index of the first trigger node, 0 for None
_find_trigger_node(nodes) ==
    IF \E i \in 1..Len(nodes) : nodes[i].type = "trigger"
    THEN CHOOSE i \in 1..Len(nodes) :
            /\ nodes[i].type = "trigger"
            /\ \A j \in 1..(i - 1) : nodes[j].type # "trigger"
    ELSE 0

\* variant: an id that matches no node falls back to the first node of the list
_get_node_by_id_or_first(node_id, nodes) ==
    IF \E i \in 1..Len(nodes) : nodes[i].id = node_id
    THEN CHOOSE i \in 1..Len(nodes) :
            nodes[i].id = node_id /\ \A k \in 1..(i - 1) : nodes[k].id # node_id
    ELSE IF Len(nodes) = 0 THEN 0 ELSE 1
\* variant: an id no node has resolves to the last node of the list instead of None
_get_node_by_id_or_last(node_id, nodes) ==
    IF \E i \in 1..Len(nodes) : nodes[i].id = node_id
    THEN CHOOSE i \in 1..Len(nodes) :
            /\ nodes[i].id = node_id
            /\ \A j \in 1..(i - 1) : nodes[j].id # node_id
    ELSE Len(nodes)
\* WorkflowExecutor._get_node_by_id: index of the first node with that id, 0 for None
_get_node_by_id(node_id, nodes) ==
    IF \E i \in 1..Len(nodes) : nodes[i].id = node_id
    THEN CHOOSE i \in 1..Len(nodes) :
            /\ nodes[i].id = node_id
            /\ \A j \in 1..(i - 1) : nodes[j].id # node_id
    ELSE 0


(***************************************************************************)
(* The workflows and payloads the executions are started with.             *)
(***************************************************************************)
NoConfig == << >>
nT == Node("t", "trigger", None, NoConfig)
nT2 == Node("t2", "trigger", None, NoConfig)
nA == Node("a", "action", "data.set_variable", [name |-> VStr("x"), value |-> VNum(1)])
nB == Node("b", "action", "data.set_variable", [name |-> VStr("y"), value |-> VStr("{{x}}")])
nU == Node("u", "action", "nope", NoConfig)
nC == Node("c", "condition", None, [left |-> VStr("{{x}}"), operator |-> VStr("=="), right |-> VNum(1)])
nC53 == Node("c", "condition", None, [left |-> VNum(5), operator |-> VStr(">"), right |-> VNum(3)])
nCbad == Node("c", "condition", None, [left |-> VStr("abc"), operator |-> VStr(">"), right |-> VNum(3)])
nO == Node("o", "output", None, NoConfig)
nO2 == Node("o2", "output", None, NoConfig)
nD == Node("d", "action", "logic.delay", [seconds |-> VNum(1)])
nH == Node("h", "action", "http.request", [url |-> VStr("http://host/")])
nE == Node("e", "action", "email.send", [to |-> VStr("ada@host"), subject |-> VStr("s"), body |-> VStr("b")])
nP == Node("p", "action", "notification.push", [title |-> VStr("s"), message |-> VStr("b")])
nL == Node("l", "action", "data.log", [message |-> VStr("hi {{x}}")])
nF == Node("f", "action", "data.transform", [template |-> VDict([greeting |-> VStr("hi {{x}}")])])
nN == Node("n", "note", None, NoConfig)
\* logic.condition used as the action of an action node, on an operand float() rejects
nK == Node("k", "action", "logic.condition", [left |-> VStr("abc"), operator |-> VStr(">"), right |-> VNum(3)])
\* a condition on a variable, and an action that overwrites that variable with a string
nCx == Node("c", "condition", None, [left |-> VStr("{{x}}"), operator |-> VStr(">"), right |-> VNum(0)])
nX == Node("b", "action", "data.set_variable", [name |-> VStr("x"), value |-> VStr("abc")])
\* conditions whose operator the handler does not know, and conditions without operator
nCq == Node("c", "condition", None, [left |-> VNum(1), operator |-> VStr("~"), right |-> VNum(1)])
nCq2 == Node("c2", "condition", None, [left |-> VStr("abc"), operator |-> VStr("=>"), right |-> VStr("{{x}}")])
nCn == Node("c", "condition", None, [left |-> VNum(1), right |-> VNum(1)])
nCn2 == Node("c2", "condition", None, [left |-> VStr("abc"), right |-> VNum(1)])

\* a row of the workflows table; is_active has default=True
Workflow(id, nodes, edges) == [id |-> id, nodes |-> nodes, edges |-> edges, is_active |-> TRUE]
\* the row with its active flag switched off
Inactive(wf) == [wf EXCEPT !.is_active = FALSE]
\* what .first() returns when no row has the requested id
NoRow == [found |-> FALSE]

\* the generated family: every edge list of at most MaxEdges edges of EdgePool
GenNodes == <<nT, nA, nC, nU, nO>>
EdgePool ==
    { Edge("t", "a", None), Edge("t", "c", None), Edge("t", "u", None),
      Edge("t", "ghost", None), Edge("a", "c", None),
      Edge("c", "a", "false"), Edge("c", "o", "true"), Edge("c", "u", "false"),
      Edge("c", "o", None) }
EdgeLists == UNION { [1..len -> EdgePool] : len \in 0..MaxEdges }
GeneratedWorkflows == { Workflow(1, GenNodes, el) : el \in EdgeLists }

\* workflows for the cases the generated family does not contain
CuratedWorkflows ==
    { Workflow(2, << >>, << >>),
      Workflow(3, <<nA, nO>>, <<Edge("a", "o", None)>>),
      Workflow(4, <<nT, nC53, nA, nB, nO>>,
               <<Edge("t", "c", None), Edge("c", "a", "true"), Edge("c", "b", "false"),
                 Edge("a", "o", None), Edge("b", "o", None)>>),
      Workflow(5, <<nT, nCbad, nO>>, <<Edge("t", "c", None), Edge("c", "o", "true")>>),
      Workflow(6, <<nT, nA, nB, nU, nO>>,
               <<Edge("t", "a", None), Edge("t", "o", None), Edge("a", "b", None),
                 Edge("b", "u", None), Edge("a", "o", None)>>),
      Workflow(7, <<nA, nT, nE, nP, nL, nF, nO, nT2>>,
               <<Edge("t", "a", None), Edge("a", "e", None), Edge("e", "p", None),
                 Edge("p", "l", None), Edge("l", "f", None), Edge("f", "o", None)>>),
      Workflow(8, <<nT, nD, nH, nN, nO>>,
               <<Edge("t", "d", None), Edge("d", "h", None), Edge("h", "n", None),
                 Edge("n", "o", None)>>),
      Workflow(9, <<nT, nA, nC, nO, nO2>>,
               <<Edge("t", "a", None), Edge("a", "c", None), Edge("c", "o", "true"),
                 Edge("c", "o2", "true"), Edge("c", "a", "false")>>),
      Workflow(14, <<nT, nA, nO>>,
               <<Edge("t", "a", "false"), Edge("a", "o", None), Edge("o", "a", None)>>),
      Workflow(15, <<nT, nA>>, <<Edge("t", "a", None), Edge("a", "a", None)>>),
      Workflow(16, <<nT, nC, nU, nO>>,
               <<Edge("t", "c", None), Edge("c", "u", "false"), Edge("c", "o", "false")>>),
      Workflow(17, <<nT, nA, nO>>, <<Edge("t", "a", None), Edge("a", "o", None)>>),
      Workflow(20, <<nT, nO, nU, nA>>,
               <<Edge("t", "o", None), Edge("o", "u", None), Edge("t", "a", None)>>),
      Workflow(21, <<nT, nK, nO>>, <<Edge("t", "k", None), Edge("k", "o", None)>>),
      Workflow(22, <<nT, nA, nCx, nX>>,
               <<Edge("t", "a", None), Edge("a", "c", None), Edge("c", "b", "true"),
                 Edge("b", "c", None)>>),
      Workflow(23, <<nT2, nT, nO>>, <<Edge("t", "o", None), Edge("t2", "t", None)>>),
      Workflow(24, <<nT, nA, nB, nN, nO>>,
               <<Edge("t", "a", "false"), Edge("t", "b", "true"), Edge("b", "n", "maybe"),
                 Edge("n", "o", "false")>>),
      Workflow(25, <<nT, nA, nB, nO, nN>>,
               <<Edge("t", "b", None), Edge("b", "n", None), Edge("n", "o", None),
                 Edge("t", "a", None), Edge("a", "o", None)>>),
      Workflow(26, <<nT, nA, nB, nL, nO>>,
               <<Edge("t", "a", None), Edge("t", "b", None), Edge("a", "l", None),
                 Edge("b", "l", None), Edge("l", "o", None)>>),
      Workflow(27, <<nT, nA, nO>>,
               <<Edge("t", "a", None), Edge("t", "a", None), Edge("a", "o", None)>>),
      Workflow(29, <<nT, nCq, nCq2, nA, nB, nO>>,
               <<Edge("t", "c", None), Edge("c", "a", "true"), Edge("c", "c2", "false"),
                 Edge("c", "o", None), Edge("c2", "a", "true"), Edge("c2", "b", "false"),
                 Edge("c2", "o", "false")>>),
      Workflow(30, <<nT, nCn, nCn2, nA, nB, nO>>,
               <<Edge("t", "c", None), Edge("c", "c2", "true"), Edge("c", "b", "false"),
                 Edge("c2", "a", "true"), Edge("c2", "o", "false")>>),
      Workflow(31, <<nT, nO, nU>>, <<Edge("t", "o", None), Edge("t", "u", None)>>) }

Workflows == GeneratedWorkflows \cup CuratedWorkflows

\* workflows of the concurrent executions
ConcurrentWorkflows ==
    { Workflow(10, <<nT, nA, nD, nO>>,
               <<Edge("t", "a", None), Edge("a", "d", None), Edge("d", "o", None)>>),
      Workflow(18, <<nT, nA, nC, nL, nF, nP, nO>>,
               <<Edge("t", "a", None), Edge("a", "c", None), Edge("c", "l", "true"),
                 Edge("l", "f", None), Edge("f", "p", None), Edge("p", "o", None)>>),
      Workflow(12, <<nT, nH, nU>>, <<Edge("t", "h", None), Edge("h", "u", None)>>),
      Workflow(13, <<nT, nE, nO>>, <<Edge("t", "e", None), Edge("e", "o", None)>>),
      Workflow(19, <<nT, nB, nCbad, nO>>,
               <<Edge("t", "b", None), Edge("b", "c", None), Edge("c", "o", "true")>>) }

\* request.input_data: None or a dict
NoInput == [given |-> FALSE, d |-> << >>]
InputPayloads == { NoInput, [given |-> TRUE, d |-> [k |-> VNum(7)]] }
\* variant: the payload is dropped, every run gets the empty object
OrEmptyAlways(input_data) == << >>
\* input_data or {}
OrEmpty(input_data) == input_data.d


(***************************************************************************)
(* State.                                                                  *)
(***************************************************************************)
VARIABLES
    registry,       \* action_registry._actions, the global catalog
    registered,     \* history of the register calls: per id, the definition last passed
    listing,        \* the last read of the catalog: the method, its argument, what it returned
    call,           \* one direct call of a handler: its arguments and, once made, its outcome
    workflow,       \* workflow[r]: the Workflow row run r executes
    input,          \* input[r]: request.input_data of run r
    exOf,           \* exOf[r]: the WorkflowExecutor instance run r's execute() is called on
    running,        \* the coroutine the event loop is running, 0 when none
    pc,             \* pc[r]: position of run r inside execute()
    stack,          \* stack[r]: the nested _execute_node calls, innermost last
    context,        \* context[e]: self.context of executor e
    execution_log,  \* execution_log[e]: self.execution_log of executor e
    heap,           \* heap[ref]: the "variables" dict object created by run ref
    execution,      \* execution[r]: the WorkflowExecution object in memory
    db,             \* db[r]: the committed workflow_executions row
    exc,            \* exc[r]: the exception propagating in run r
    clock           \* datetime.utcnow()

vars == <<registry, registered, listing, call, workflow, input, exOf, running, pc, stack, context, execution_log,
          heap, execution, db, exc, clock>>

\* self.context = {} in __init__
NoContext == [set |-> FALSE, input |-> << >>, variables |-> 0, workflow_id |-> 0, execution_id |-> 0]
\* a nullable column: NULL, or the text / value stored
Null == [set |-> FALSE, v |-> << >>]
Some(v) == [set |-> TRUE, v |-> v]
\* no WorkflowExecution object / row yet
NoExecution ==
    [id |-> 0, workflow_id |-> 0, status |-> "", input_data |-> Null, output_data |-> Null,
     execution_log |-> Null, error_message |-> Null, current_node_id |-> None,
     started_at |-> 0, completed_at |-> 0]

\* one _execute_node call: the node (its index in the node list), the position of
\* the "for edge in next_edges" loop, and the local result
Frame(node) == [node |-> node, ei |-> 1, result |-> << >>]

\* json.dumps / json.loads
Dumps(value) == [json |-> value]
Loads(text) == text.json

\* an entry of the log as json.dumps writes it: the output event holds a reference
\* to the variables dict, which is serialised with the content it has then
DumpEntry(entry, h) ==
    IF entry.event = "output"
    THEN [entry EXCEPT !.data = "data" :> h[entry.data.data]]
    ELSE entry
DumpLog(log, h) == Dumps([i \in 1..Len(log) |-> DumpEntry(log[i], h)])

\* variant: the time of the step is also written into the entry's data
_log_step_stamped(log, event, data, now) ==
    Append(log, [timestamp |-> now, event |-> event,
                 data |-> [kk \in (DOMAIN data) \cup {"at"} |-> IF kk = "at" THEN now ELSE data[kk]]])
\* WorkflowExecutor._log_step
\* variant: the log keeps the latest step only
_log_step_latest_only(log, event, data, now) == <<[timestamp |-> now, event |-> event, data |-> data]>>
_log_step(log, event, data, now) == Append(log, [timestamp |-> now, event |-> event, data |-> data])

\* variant: except ValueError as e
CaughtValueErrorOnly(e) == e.type = "ValueError"
\* variant: only an exception of the base class itself is caught, not its subclasses
CaughtBaseClassOnly(e) == e.type = "Exception"
\* except Exception as e
Caught(e) == e.type \in ExceptionTypes

TypeOK ==
    /\ running \in Runs \cup {0}
    /\ \A r \in Runs : pc[r] \in {"absent", "idle", "init", "node", "await", "edges", "complete",
                                  "except", "save", "returned", "escaped", "rejected"}


(***************************************************************************)
(* Initial states.                                                         *)
(***************************************************************************)
\* variant: one module-level executor serves every request
SharedExecutor(r) == 1
\* executor = WorkflowExecutor(db) in execute_workflow: a new instance per request
NewExecutor(r) == r
\* variant: every run's context points at one module-level variables dict
SharedDict(r) == 1
\* "variables": {} in execute: a new dict object per run
NewDict(r) == r

\* the catalog has not been read
NoListing == [method |-> None, action_id |-> None, returned |-> None]

\* no direct handler call
NoCall == [handler |-> None, variables |-> EmptyDict, config |-> Config(1, << >>), done |-> TRUE,
           out |-> Raised(NoExc, EmptyDict)]

\* variant: the list of the previous run is kept
NewLogKeepsSteps(log) == log
\* line 47: self.execution_log = []
NewLog(log) == << >>

InitWith(active, wfs, payloads) ==
    /\ registry = _register_builtin_actions
    /\ listing = NoListing
    /\ registered = [id \in { BuiltinActions[i].id : i \in 1..Len(BuiltinActions) } |->
                        BuiltinActions[CHOOSE i \in 1..Len(BuiltinActions) : BuiltinActions[i].id = id]]
    /\ \E wa \in [active -> wfs] :
          workflow = [r \in Runs |-> IF r \in active THEN wa[r] ELSE wa[CHOOSE a \in active : TRUE]]
    /\ \E ia \in [active -> payloads] :
          input = [r \in Runs |-> IF r \in active THEN ia[r] ELSE ia[CHOOSE a \in active : TRUE]]
    /\ exOf = [r \in Runs |-> NewExecutor(r)]
    /\ running = 0
    /\ pc = [r \in Runs |-> IF r \in active THEN "idle" ELSE "absent"]
    /\ stack = [r \in Runs |-> << >>]
    /\ context = [e \in Runs |-> NoContext]
    /\ execution_log = [e \in Runs |-> << >>]
    /\ heap = [ref \in Runs |-> EmptyDict]
    /\ execution = [r \in Runs |-> NoExecution]
    /\ db = [r \in Runs |-> NoExecution]
    /\ exc = [r \in Runs |-> NoExc]
    /\ clock = 1

\* one execute request, for any workflow
Init == call = NoCall /\ InitWith({1}, Workflows, InputPayloads)

\* several execute requests, each with the executor execute_workflow creates for it
InitConcurrent == call = NoCall /\ InitWith(Runs, ConcurrentWorkflows, {[given |-> TRUE, d |-> [k |-> VNum(7)]]})

(***************************************************************************)
(* execute_workflow (api/workflows.py) up to WorkflowExecutor.execute      *)
(* lines 29-37: the execution record is created with status running.       *)
(***************************************************************************)
\* variant: the active flag is not looked at
AcceptedWhenFound(wf) == wf # NoRow
\* lines 208-212: the request goes on to the engine
Accepted(wf) == wf # NoRow /\ wf.is_active

\* lines 209-212: the request is answered with 404 or 400, no executor is created
reject_request(r) ==
    /\ pc[r] = "idle"
    /\ running = 0
    /\ ~Accepted(workflow[r])
    /\ exc' = [exc EXCEPT ![r] =
            IF workflow[r] = NoRow
            THEN Exc("HTTPException", <<"404", "Workflow not found">>)
            ELSE Exc("HTTPException", <<"400", "Workflow is not active">>)]
    /\ pc' = [pc EXCEPT ![r] = "rejected"]
    /\ UNCHANGED <<registry, registered, listing, call, workflow, input, exOf, running, stack, context,
                   execution_log, heap, execution, db, clock>>

execute_workflow(r) ==
    /\ pc[r] = "idle"
    /\ running = 0
    /\ Accepted(workflow[r])
    /\ running' = r
    /\ execution' = [execution EXCEPT ![r] =
            [NoExecution EXCEPT !.id = r,
                                !.workflow_id = workflow[r].id,
                                !.status = "running",
                                !.input_data = Some(Dumps(OrEmpty(input[r]))),
                                !.execution_log = Some(Dumps(<< >>)),
                                !.started_at = clock]]
    /\ db' = [db EXCEPT ![r] = execution'[r]]
    /\ clock' = clock + 1
    /\ pc' = [pc EXCEPT ![r] = "init"]
    /\ UNCHANGED <<registry, registered, listing, call, workflow, input, exOf, stack, context, execution_log, heap, exc>>

(***************************************************************************)
(* execute lines 39-62: context and log are initialised, the trigger is    *)
(* looked up and _execute_node is called on it.                            *)
(***************************************************************************)
execute_init(r) ==
    /\ pc[r] = "init"
    /\ running = r
    /\ LET e == exOf[r]
           trigger_node == _find_trigger_node(workflow[r].nodes)
       IN /\ context' = [context EXCEPT ![e] =
                  [set |-> TRUE, input |-> OrEmpty(input[r]), variables |-> NewDict(r),
                   workflow_id |-> workflow[r].id, execution_id |-> execution[r].id]]
          /\ heap' = [heap EXCEPT ![NewDict(r)] = EmptyDict]
          /\ execution_log' = [execution_log EXCEPT ![e] = NewLog(@)]
          /\ IF trigger_node = 0
             THEN /\ exc' = [exc EXCEPT ![r] = Exc("Exception", <<"No trigger node found in workflow">>)]
                  /\ pc' = [pc EXCEPT ![r] = "except"]
                  /\ stack' = stack
             ELSE /\ stack' = [stack EXCEPT ![r] = <<Frame(trigger_node)>>]
                  /\ pc' = [pc EXCEPT ![r] = "node"]
                  /\ exc' = exc
    /\ UNCHANGED <<registry, registered, listing, call, workflow, input, exOf, running, execution, db, clock>>


(***************************************************************************)
(* _execute_node lines 119-158: one node is entered and executed.          *)
(***************************************************************************)
Top(stk) == stk[Len(stk)]
SetTop(stk, frame) == [stk EXCEPT ![Len(stk)] = frame]
Pop(stk) == SubSeq(stk, 1, Len(stk) - 1)
\* where a run continues when the innermost _execute_node call returns
AfterReturn(stk) == IF Len(stk) = 1 THEN "complete" ELSE "edges"

\* variant: the output case does not return, the call goes on to its edge loop
ReturnFallsThrough(stk) == [stack |-> stk, pc |-> "edges"]
\* line 156, "return" of the output case: the call ends and the caller continues
Return(stk) == [stack |-> Pop(stk), pc |-> AfterReturn(stk)]

NodeStartData(node) == [node_id |-> node.id, type |-> node.type, action |-> node.actionId]
\* variant: the completion entry does not name its node
NodeCompleteDataAnonymous(node, result) == [node_id |-> None, result |-> result]
NodeCompleteData(node, result) == [node_id |-> node.id, result |-> result]
\* variant: the raw result is stored under the node id itself
ResultKeyBare(node) == PyStr(node.id)
ResultKey(node) == "_" \o PyStr(node.id) \o "_result"

\* the handler an action or condition node dispatches to, None when there is none
HandlerOf(node, actions) ==
    IF node.type = "action" THEN get(actions, node.actionId).handler
    ELSE IF node.type = "condition" THEN get(actions, "logic.condition").handler
    ELSE None

\* variant: the result is stored under the synthetic key for condition nodes as well
AfterHandlerStoresAll(r, node, out) ==
    IF out.raised
    THEN /\ exc' = [exc EXCEPT ![r] = out.exc]
         /\ pc' = [pc EXCEPT ![r] = "except"]
         /\ heap' = [heap EXCEPT ![context[exOf[r]].variables] = out.variables]
         /\ UNCHANGED <<stack>>
    ELSE /\ heap' = [heap EXCEPT ![context[exOf[r]].variables] =
                 DictSet(out.variables, ResultKey(node), VDict(out.result))]
         /\ stack' = [stack EXCEPT ![r] = SetTop(@, [Top(@) EXCEPT !.result = out.result])]
         /\ pc' = [pc EXCEPT ![r] = "edges"]
         /\ UNCHANGED <<exc>>
\* variant: an exception of the handler is swallowed, the node completes with an
\* empty result and the traversal goes on
AfterHandlerSwallows(r, node, out) ==
    /\ heap' = [heap EXCEPT ![context[exOf[r]].variables] =
            IF node.type = "action" /\ ~out.raised
            THEN DictSet(out.variables, ResultKey(node), VDict(out.result))
            ELSE out.variables]
    /\ stack' = [stack EXCEPT ![r] = SetTop(@, [Top(@) EXCEPT !.result = out.result])]
    /\ pc' = [pc EXCEPT ![r] = "edges"]
    /\ UNCHANGED <<exc>>
\* lines 141-143 / 151 and 158 once the handler has returned or raised
AfterHandler(r, node, out) ==
    LET e == exOf[r]
        ref == context[e].variables
        stored == IF node.type = "action"
                  THEN DictSet(out.variables, ResultKey(node), VDict(out.result))
                  ELSE out.variables
    IN IF out.raised
       THEN /\ exc' = [exc EXCEPT ![r] = out.exc]
            /\ pc' = [pc EXCEPT ![r] = "except"]
            /\ heap' = [heap EXCEPT ![ref] = out.variables]
            /\ UNCHANGED <<stack>>
       ELSE /\ heap' = [heap EXCEPT ![ref] = stored]
            /\ stack' = [stack EXCEPT ![r] = SetTop(@, [Top(@) EXCEPT !.result = out.result])]
            /\ pc' = [pc EXCEPT ![r] = "edges"]
            /\ UNCHANGED <<exc>>

\* variant: the record only keeps track of action nodes
EnteredActionsOnly(record, node) ==
    IF node.type = "action" THEN [record EXCEPT !.current_node_id = node.id] ELSE record
\* line 124: execution.current_node_id = node_id
Entered(record, node) == [record EXCEPT !.current_node_id = node.id]

_execute_node(r) ==
    /\ pc[r] = "node"
    /\ running = r
    /\ LET e == exOf[r]
           node == workflow[r].nodes[Top(stack[r]).node]
           handler == HandlerOf(node, registry)
           started == _log_step(execution_log[e], "node_start", NodeStartData(node), clock)
           Completed(result) == _log_step(started, "node_complete", NodeCompleteData(node, result), clock + 1)
       IN /\ execution' = [execution EXCEPT ![r] = Entered(@, node)]
          /\ db' = [db EXCEPT ![r] = execution'[r]]
          /\ CASE node.type = "trigger" ->
                    /\ execution_log' = [execution_log EXCEPT ![e] = Completed([triggered |-> VBool(TRUE)])]
                    /\ stack' = [stack EXCEPT ![r] = SetTop(@, [Top(@) EXCEPT !.result = [triggered |-> VBool(TRUE)]])]
                    /\ pc' = [pc EXCEPT ![r] = "edges"]
                    /\ clock' = clock + 2
                    /\ UNCHANGED <<heap, exc, running>>
               [] node.type = "output" ->
                    /\ execution_log' = [execution_log EXCEPT ![e] =
                            _log_step(started, "output", [data |-> context[e].variables], clock + 1)]
                    /\ stack' = [stack EXCEPT ![r] = Return(@).stack]
                    /\ pc' = [pc EXCEPT ![r] = Return(stack[r]).pc]
                    /\ clock' = clock + 2
                    /\ UNCHANGED <<heap, exc, running>>
               [] node.type = "action" /\ handler = None ->
                    /\ execution_log' = [execution_log EXCEPT ![e] = started]
                    /\ exc' = [exc EXCEPT ![r] = Exc("Exception", <<"Unknown action: ", PyStr(node.actionId)>>)]
                    /\ pc' = [pc EXCEPT ![r] = "except"]
                    /\ clock' = clock + 1
                    /\ UNCHANGED <<heap, stack, running>>
               [] node.type \in {"action", "condition"} /\ handler # None /\ Suspends(handler) ->
                    /\ execution_log' = [execution_log EXCEPT ![e] = started]
                    /\ pc' = [pc EXCEPT ![r] = "await"]
                    /\ running' = 0
                    /\ clock' = clock + 1
                    /\ UNCHANGED <<heap, stack, exc>>
               [] node.type \in {"action", "condition"} /\ handler # None /\ ~Suspends(handler) ->
                    \* the config dict json.loads built for this run lies at any address
                    \E addr \in Addrs :
                        LET out == CallHandler(handler, heap[context[e].variables], Config(addr, node.config), TRUE)
                        IN /\ AfterHandler(r, node, out)
                           /\ execution_log' = [execution_log EXCEPT ![e] =
                                   IF out.raised THEN started ELSE Completed(out.result)]
                           /\ clock' = clock + (IF out.raised THEN 1 ELSE 2)
                           /\ UNCHANGED <<running>>
               [] OTHER ->
                    /\ execution_log' = [execution_log EXCEPT ![e] = Completed(<< >>)]
                    /\ pc' = [pc EXCEPT ![r] = "edges"]
                    /\ clock' = clock + 2
                    /\ UNCHANGED <<heap, stack, exc, running>>
    /\ UNCHANGED <<registry, registered, listing, call, workflow, input, exOf, context>>

\* a suspended handler (asyncio.sleep, the HTTP call) returns and line 143 and 158 run
resume_handler(r) ==
    /\ pc[r] = "await"
    /\ running = 0
    /\ \E ok \in BOOLEAN :
        LET e == exOf[r]
            node == workflow[r].nodes[Top(stack[r]).node]
            out == CallHandler(HandlerOf(node, registry), heap[context[e].variables], Config(1, node.config), ok)
        IN /\ AfterHandler(r, node, out)
           /\ execution_log' = [execution_log EXCEPT ![e] =
                   IF out.raised THEN @
                   ELSE _log_step(@, "node_complete", NodeCompleteData(node, out.result), clock)]
           /\ clock' = clock + 1
    /\ running' = r
    /\ UNCHANGED <<registry, registered, listing, call, workflow, input, exOf, context, execution, db>>


(***************************************************************************)
(* _execute_node lines 160-181: one iteration of "for edge in next_edges", *)
(* or the return when the loop is exhausted.                               *)
(***************************************************************************)
\* variant: a node of a type the engine does not know ends its branch
FollowsKnownTypesOnly(node, edge, result) ==
    IF node.type = "condition"
    THEN LET condition_result == Truthy(Get(result, "result", VBool(FALSE)))
         IN \/ edge.sourceHandle = "true" /\ condition_result
            \/ edge.sourceHandle = "false" /\ ~condition_result
    ELSE node.type \in {"trigger", "action"}
\* variant: the branch rule is applied to the edges of every node, not only of
\* condition nodes
FollowsByHandleEverywhere(node, edge, result) ==
    LET condition_result == Truthy(Get(result, "result", VBool(FALSE)))
    IN \/ edge.sourceHandle = "true" /\ condition_result
       \/ edge.sourceHandle = "false" /\ ~condition_result
\* variant: the handle is not looked at, every edge of a condition node is followed
FollowsAnyHandle(node, edge, result) == TRUE
\* variant: an edge without handle is taken as the "true" branch
FollowsMissingAsTrue(node, edge, result) ==
    IF node.type = "condition"
    THEN LET condition_result == Truthy(Get(result, "result", VBool(FALSE)))
         IN \/ edge.sourceHandle \in {"true", None} /\ condition_result
            \/ edge.sourceHandle = "false" /\ ~condition_result
    ELSE TRUE
\* lines 170-181: whether the edge out of a node with this result is followed
Follows(node, edge, result) ==
    IF node.type = "condition"
    THEN LET condition_result == Truthy(Get(result, "result", VBool(FALSE)))
         IN \/ edge.sourceHandle = "true" /\ condition_result
            \/ edge.sourceHandle = "false" /\ ~condition_result
    ELSE TRUE

\* variant: a node that is being executed further up the call chain is not entered again
CallUnlessActive(stk, target_node) ==
    IF \E f \in 1..Len(stk) : stk[f].node = target_node
    THEN [stack |-> stk, pc |-> "edges"]
    ELSE [stack |-> Append(stk, Frame(target_node)), pc |-> "node"]
\* line 181: await self._execute_node(target_node, adjacency)
Call(stk, target_node) == [stack |-> Append(stk, Frame(target_node)), pc |-> "node"]

next_edge(r) ==
    /\ pc[r] = "edges"
    /\ running = r
    /\ LET frame == Top(stack[r])
           node == workflow[r].nodes[frame.node]
           next_edges == _build_adjacency(workflow[r].edges, node.id)
       IN IF frame.ei > Len(next_edges)
          THEN /\ stack' = [stack EXCEPT ![r] = Pop(@)]
               /\ pc' = [pc EXCEPT ![r] = AfterReturn(stack[r])]
               /\ UNCHANGED <<exc>>
          ELSE LET edge == next_edges[frame.ei]
                   target_node == _get_node_by_id(edge.target, workflow[r].nodes)
                   advanced == SetTop(stack[r], [frame EXCEPT !.ei = @ + 1])
               IN IF target_node = 0 \/ ~Follows(node, edge, frame.result)
                  THEN /\ stack' = [stack EXCEPT ![r] = advanced]
                       /\ UNCHANGED <<pc, exc>>
                  ELSE IF Len(stack[r]) >= MaxDepth
                       THEN /\ exc' = [exc EXCEPT ![r] =
                                   Exc("RecursionError", <<"maximum recursion depth exceeded">>)]
                            /\ pc' = [pc EXCEPT ![r] = "except"]
                            /\ UNCHANGED <<stack>>
                       ELSE /\ stack' = [stack EXCEPT ![r] = Call(advanced, target_node).stack]
                            /\ pc' = [pc EXCEPT ![r] = Call(advanced, target_node).pc]
                            /\ UNCHANGED <<exc>>
    /\ UNCHANGED <<registry, registered, listing, call, workflow, input, exOf, running, context, execution_log, heap,
                   execution, db, clock>>

(***************************************************************************)
(* execute lines 64-67: the traversal returned.                            *)
(***************************************************************************)
\* variant: the status is set and the output written, completed_at is left unset
execute_completed_unstamped(r) ==
    /\ pc[r] = "complete"
    /\ running = r
    /\ execution' = [execution EXCEPT
            ![r].status = "completed",
            ![r].output_data = Some(Dumps(IF context[exOf[r]].set
                                          THEN heap[context[exOf[r]].variables]
                                          ELSE EmptyDict))]
    /\ clock' = clock + 1
    /\ pc' = [pc EXCEPT ![r] = "save"]
    /\ UNCHANGED <<registry, registered, listing, call, workflow, input, exOf, running, stack, context, execution_log,
                   heap, db, exc>>
execute_completed(r) ==
    /\ pc[r] = "complete"
    /\ running = r
    /\ execution' = [execution EXCEPT
            ![r].status = "completed",
            ![r].output_data = Some(Dumps(IF context[exOf[r]].set
                                          THEN heap[context[exOf[r]].variables]
                                          ELSE EmptyDict)),
            ![r].completed_at = clock]
    /\ clock' = clock + 1
    /\ pc' = [pc EXCEPT ![r] = "save"]
    /\ UNCHANGED <<registry, registered, listing, call, workflow, input, exOf, running, stack, context, execution_log,
                   heap, db, exc>>

\* variant: the failure is recorded but only the failing call is abandoned; the
\* traversal goes on with the edges still pending at the caller
execute_failed_branch_only(r) ==
    /\ pc[r] = "except"
    /\ running = r
    /\ stack' = [stack EXCEPT ![r] = Pop(@)]
    /\ execution' = [execution EXCEPT
            ![r].status = "failed",
            ![r].error_message = Some(exc[r].msg),
            ![r].completed_at = clock]
    /\ execution_log' = [execution_log EXCEPT ![exOf[r]] =
            _log_step(@, "error", [message |-> exc[r].msg], clock + 1)]
    /\ clock' = clock + 2
    /\ exc' = [exc EXCEPT ![r] = NoExc]
    /\ pc' = [pc EXCEPT ![r] = IF Len(stack[r]) <= 1 THEN "save" ELSE "edges"]
    /\ UNCHANGED <<registry, registered, listing, call, workflow, input, exOf, running, context, heap, db>>

(***************************************************************************)
(* execute lines 69-73: except Exception.                                  *)
(***************************************************************************)
execute_failed(r) ==
    /\ pc[r] = "except"
    /\ running = r
    /\ stack' = [stack EXCEPT ![r] = << >>]
    /\ IF Caught(exc[r])
       THEN /\ execution' = [execution EXCEPT
                    ![r].status = "failed",
                    ![r].error_message = Some(exc[r].msg),
                    ![r].completed_at = clock]
            /\ execution_log' = [execution_log EXCEPT ![exOf[r]] =
                    _log_step(@, "error", [message |-> exc[r].msg], clock + 1)]
            /\ clock' = clock + 2
            /\ exc' = [exc EXCEPT ![r] = NoExc]
            /\ pc' = [pc EXCEPT ![r] = "save"]
            /\ UNCHANGED <<running>>
       ELSE /\ pc' = [pc EXCEPT ![r] = "escaped"]
            /\ running' = 0
            /\ UNCHANGED <<execution, execution_log, clock, exc>>
    /\ UNCHANGED <<registry, registered, listing, call, workflow, input, exOf, context, heap, db>>

\* variant: a failed execution is put back to running and executed again
execute_save_then_retry(r) ==
    /\ pc[r] = "save"
    /\ running = r
    /\ execution' = [execution EXCEPT
            ![r].execution_log = Some(DumpLog(execution_log[exOf[r]], heap)),
            ![r].status = IF @ = "failed" THEN "running" ELSE @]
    /\ db' = [db EXCEPT ![r] = execution'[r]]
    /\ pc' = [pc EXCEPT ![r] = IF execution[r].status = "failed" THEN "init" ELSE "returned"]
    /\ running' = IF execution[r].status = "failed" THEN r ELSE 0
    /\ UNCHANGED <<registry, registered, listing, call, workflow, input, exOf, stack, context, execution_log, heap,
                   exc, clock>>

(***************************************************************************)
(* execute lines 75-80: the log is serialised, the row committed and the   *)
(* record returned.                                                        *)
(***************************************************************************)
execute_save(r) ==
    /\ pc[r] = "save"
    /\ running = r
    /\ execution' = [execution EXCEPT
            ![r].execution_log = Some(DumpLog(execution_log[exOf[r]], heap))]
    /\ db' = [db EXCEPT ![r] = execution'[r]]
    /\ pc' = [pc EXCEPT ![r] = "returned"]
    /\ running' = 0
    /\ UNCHANGED <<registry, registered, listing, call, workflow, input, exOf, stack, context, execution_log, heap,
                   exc, clock>>

Next ==
    \E r \in Runs :
        \/ execute_workflow(r)
        \/ execute_init(r)
        \/ _execute_node(r)
        \/ resume_handler(r)
        \/ next_edge(r)
        \/ execute_completed(r)
        \/ execute_failed(r)
        \/ execute_save(r)

Spec == Init /\ [][Next]_vars
\* the event loop runs the coroutine on, and a suspended handler is resumed
SpecFair == Spec /\ WF_vars(Next)
SpecConcurrent == InitConcurrent /\ [][Next]_vars

(***************************************************************************)
(* The execute endpoint with requests for workflows that are missing or    *)
(* switched off beside requests for active ones.                           *)
(***************************************************************************)
\* what the query of line 208 returns for the requests sent
Lookups ==
    { Workflow(10, <<nT, nA, nD, nO>>,
               <<Edge("t", "a", None), Edge("a", "d", None), Edge("d", "o", None)>>),
      Workflow(12, <<nT, nH, nU>>, <<Edge("t", "h", None), Edge("h", "u", None)>>),
      Inactive(Workflow(32, <<nT, nA, nO>>, <<Edge("t", "a", None), Edge("a", "o", None)>>)),
      NoRow }
InitApi == call = NoCall /\ InitWith(Runs, Lookups, {[given |-> TRUE, d |-> [k |-> VNum(7)]]})
NextApi ==
    \/ \E r \in Runs : reject_request(r)
    \/ Next
SpecApi == InitApi /\ [][NextApi]_vars

(***************************************************************************)
(* One WorkflowExecutor instance whose execute() is called for one request *)
(* after the other: a call starts when no other call is in progress.       *)
(***************************************************************************)
SharedWorkflows == { wf \in CuratedWorkflows : wf.id \in {6, 8, 16, 17} }

InitShared ==
    /\ call = NoCall
    /\ registry = _register_builtin_actions
    /\ listing = NoListing
    /\ registered = [id \in { BuiltinActions[i].id : i \in 1..Len(BuiltinActions) } |->
                        BuiltinActions[CHOOSE i \in 1..Len(BuiltinActions) : BuiltinActions[i].id = id]]
    /\ workflow \in [Runs -> SharedWorkflows]
    /\ input \in [Runs -> InputPayloads]
    /\ exOf = [r \in Runs |-> 1]
    /\ running = 0
    /\ pc = [r \in Runs |-> "idle"]
    /\ stack = [r \in Runs |-> << >>]
    /\ context = [e \in Runs |-> NoContext]
    /\ execution_log = [e \in Runs |-> << >>]
    /\ heap = [ref \in Runs |-> EmptyDict]
    /\ execution = [r \in Runs |-> NoExecution]
    /\ db = [r \in Runs |-> NoExecution]
    /\ exc = [r \in Runs |-> NoExc]
    /\ clock = 1

execute_next(r) ==
    /\ \A q \in Runs \ {r} : pc[q] \in {"idle", "returned"}
    /\ execute_workflow(r)

NextShared ==
    \E r \in Runs :
        \/ execute_next(r)
        \/ execute_init(r)
        \/ _execute_node(r)
        \/ resume_handler(r)
        \/ next_edge(r)
        \/ execute_completed(r)
        \/ execute_failed(r)
        \/ execute_save(r)

SpecShared == InitShared /\ [][NextShared]_vars

(***************************************************************************)
(* One WorkflowExecutor instance whose execute() is called again while an  *)
(* earlier call is suspended in a handler: self.context and                *)
(* self.execution_log belong to the instance, not to the call.             *)
(***************************************************************************)
ReentrantWorkflows ==
    { wf \in ConcurrentWorkflows : wf.id \in {10, 12} }
        \cup { Workflow(28, <<nT2, nB, nO2>>, <<Edge("t2", "b", None), Edge("b", "o2", None)>>) }

InitReentrant ==
    /\ call = NoCall
    /\ registry = _register_builtin_actions
    /\ listing = NoListing
    /\ registered = [id \in { BuiltinActions[i].id : i \in 1..Len(BuiltinActions) } |->
                        BuiltinActions[CHOOSE i \in 1..Len(BuiltinActions) : BuiltinActions[i].id = id]]
    /\ workflow \in [Runs -> ReentrantWorkflows]
    /\ input = [r \in Runs |-> NoInput]
    /\ exOf = [r \in Runs |-> 1]
    /\ running = 0
    /\ pc = [r \in Runs |-> "idle"]
    /\ stack = [r \in Runs |-> << >>]
    /\ context = [e \in Runs |-> NoContext]
    /\ execution_log = [e \in Runs |-> << >>]
    /\ heap = [ref \in Runs |-> EmptyDict]
    /\ execution = [r \in Runs |-> NoExecution]
    /\ db = [r \in Runs |-> NoExecution]
    /\ exc = [r \in Runs |-> NoExc]
    /\ clock = 1

SpecReentrant == InitReentrant /\ [][Next]_vars

(***************************************************************************)
(* The handlers called directly, as _execute_node calls them at lines 141  *)
(* and 151: await action.handler(self.context, config), for any variables  *)
(* store and any config.                                                   *)
(***************************************************************************)
\* the variables stores of the calls, keys in insertion order
VariableStores ==
    { EmptyDict,
      [keys |-> <<"x">>, val |-> [x |-> VNum(1)]],
      [keys |-> <<"x">>, val |-> [x |-> VStr("abc")]],
      [keys |-> <<"x">>, val |-> [x |-> VNone]],
      [keys |-> <<"x", "y">>, val |-> [x |-> VNum(5), y |-> VStr("{{x}}")]],
      [keys |-> <<"y", "x">>, val |-> [x |-> VNum(5), y |-> VStr("{{x}}")]] }
Operands ==
    { VStr("{{x}}"), VStr("{{y}}"), VStr("{{zz}}"), VStr("abc"), VStr("5"), VNum(1), VNum(5),
      VBool(TRUE), VNone }
Operators == { VStr("=="), VStr("!="), VStr(">"), VStr("<"), VStr(">="), VStr("<="),
               VStr("contains"), VStr("~") }
Templates ==
    { VStr("{{x}}"), VStr("hi {{x}}"), VStr("{{y}}"), VStr("{{zz}}"), VStr("abc"), VNum(7), VNone,
      VDict(<< >>),
      VDict([greeting |-> VStr("hi {{x}}"), n |-> VNum(1), inner |-> VDict([v |-> VStr("{{y}}")])]),
      VList(<<VStr("{{x}}"), VDict([a |-> VStr("hi {{zz}}")]), VList(<<VStr("{{y}}"), VBool(TRUE)>>)>>) }
HandlerConfigs(handler) ==
    CASE handler = "_action_condition" ->
            { [left |-> l, operator |-> o, right |-> r] : l \in Operands, o \in Operators, r \in Operands }
            \cup { [left |-> l, right |-> r] : l \in Operands, r \in Operands }
      [] handler = "_action_transform" -> { [template |-> t] : t \in Templates } \cup { << >> }
      [] handler = "_action_log" -> { [message |-> m] : m \in Templates } \cup { << >> }
      [] handler = "_action_set_variable" ->
            { [name |-> VStr(n), value |-> v] : n \in VarNames, v \in Operands }
      [] OTHER -> { << >>, [title |-> VStr("s"), message |-> VStr("b")] }
Handlers == { BuiltinActions[i].handler : i \in 1..Len(BuiltinActions) }
HandlerCalls ==
    UNION { { [handler |-> h, variables |-> v, config |-> Config(a, c), done |-> FALSE,
               out |-> Raised(NoExc, EmptyDict)] :
                v \in VariableStores, a \in Addrs, c \in HandlerConfigs(h) } : h \in Handlers }

call_handler ==
    /\ ~call.done
    /\ \E ok \in BOOLEAN :
          call' = [call EXCEPT !.done = TRUE,
                               !.out = CallHandler(call.handler, call.variables, call.config, ok)]
    /\ UNCHANGED <<registry, registered, listing, workflow, input, exOf, running, pc, stack, context,
                   execution_log, heap, execution, db, exc, clock>>

InitHandlers ==
    /\ call \in HandlerCalls
    /\ InitWith({1}, {Workflow(17, <<nT, nA, nO>>, <<Edge("t", "a", None), Edge("a", "o", None)>>)}, {NoInput})
NextHandlers == call_handler
SpecHandlers == InitHandlers /\ [][NextHandlers]_vars

(***************************************************************************)
(* The catalog under register calls: action_registry.register(action) for  *)
(* definitions under a built-in id or under a new id, in any order and any *)
(* number of times.                                                        *)
(***************************************************************************)
RegisterableActions ==
    { ActionDefinition(id, category, handler) :
        id \in {"data.log", "custom.a", "custom.b"},
        category \in {"utility", "custom"},
        handler \in {"_action_log", "_action_delay", None} }

register_action(action) ==
    /\ registry' = register(registry, action)
    /\ registered' = [id \in (DOMAIN registered) \cup {action.id} |->
                         IF id = action.id THEN action ELSE registered[id]]
    /\ UNCHANGED <<listing, call, workflow, input, exOf, running, pc, stack, context, execution_log,
                   heap, execution, db, exc, clock>>

InitRegistry == call = NoCall /\ InitWith({1}, {Workflow(17, <<nT, nA, nO>>, <<Edge("t", "a", None), Edge("a", "o", None)>>)}, {NoInput})
NextRegistry == \E action \in RegisterableActions : register_action(action)
SpecRegistry == InitRegistry /\ [][NextRegistry]_vars

(***************************************************************************)
(* The catalog under reads: get, list_all and list_by_category are called  *)
(* at any moment, by the listing endpoints or by hand, while an execution  *)
(* looks its actions up; the catalog is any one that register calls have   *)
(* built.                                                                  *)
(***************************************************************************)
Catalogs ==
    { _register_builtin_actions,
      register(_register_builtin_actions, ActionDefinition("custom.a", "custom", "_action_log")),
      register(register(_register_builtin_actions, ActionDefinition("custom.a", "custom", None)),
               ActionDefinition("data.log", "custom", "_action_delay")) }
CatalogWorkflows == { wf \in CuratedWorkflows : wf.id \in {6, 8, 17} }
\* the ids get is called with: registered ones, one never registered, None
LookupIds == {"data.log", "data.set_variable", "custom.a", "never.registered", None}
Reads == ({"get"} \X LookupIds) \cup ({"list_all", "list_by_category"} \X {None})

read_catalog(method, action_id) ==
    /\ registry' = Read(registry, method, action_id).actions
    /\ listing' = [method |-> method, action_id |-> action_id,
                   returned |-> Read(registry, method, action_id).returned]
    /\ UNCHANGED <<registered, call, workflow, input, exOf, running, pc, stack, context, execution_log,
                   heap, execution, db, exc, clock>>

InitCatalog ==
    /\ call = NoCall
    /\ registry \in Catalogs
    /\ registered = registry
    /\ listing = NoListing
    /\ \E wf \in CatalogWorkflows : workflow = [r \in Runs |-> wf]
    /\ input = [r \in Runs |-> NoInput]
    /\ exOf = [r \in Runs |-> NewExecutor(r)]
    /\ running = 0
    /\ pc = [r \in Runs |-> IF r = 1 THEN "idle" ELSE "absent"]
    /\ stack = [r \in Runs |-> << >>]
    /\ context = [e \in Runs |-> NoContext]
    /\ execution_log = [e \in Runs |-> << >>]
    /\ heap = [ref \in Runs |-> EmptyDict]
    /\ execution = [r \in Runs |-> NoExecution]
    /\ db = [r \in Runs |-> NoExecution]
    /\ exc = [r \in Runs |-> NoExc]
    /\ clock = 1

NextCatalog ==
    \/ \E rd \in Reads : read_catalog(rd[1], rd[2])
    \/ Next

SpecCatalog == InitCatalog /\ [][NextCatalog]_vars


(***************************************************************************)
(* Reading execution records and logs.                                     *)
(***************************************************************************)
\* the in-memory log buffer run r appends to
LogOf(r) == execution_log[exOf[r]]
\* the log of the returned record, as the API parses it: json.loads(execution.execution_log)
ReturnedLog(r) == Loads(execution[r].execution_log.v)
\* the output of the returned record: json.loads(execution.output_data)
ReturnedOutput(r) == Loads(execution[r].output_data.v)
Returned_(r) == pc[r] = "returned"
HasEntry(log, event, node_id) ==
    \E i \in 1..Len(log) : log[i].event = event /\ log[i].data.node_id = node_id
HasEvent(log, event) == \E i \in 1..Len(log) : log[i].event = event
NodeIds(wf) == { wf.nodes[i].id : i \in 1..Len(wf.nodes) }
HasTrigger(wf) == \E i \in 1..Len(wf.nodes) : wf.nodes[i].type = "trigger"

(***************************************************************************)
(* C1: execute() always returns a record whose status is completed or      *)
(* failed and no exception escapes it: whenever a fault propagates out of  *)
(* the trigger lookup, the catalog lookup, a handler or the traversal, the *)
(* next step of the run sets status failed and stores the fault's message  *)
(* in error_message.                                                       *)
(***************************************************************************)
C1_NoFaultEscapes ==
    /\ [](\A r \in Runs :
            /\ pc[r] # "escaped"
            /\ Returned_(r) =>
                 /\ execution[r].status \in {"completed", "failed"}
                 /\ db[r] = execution[r])
    /\ [][\A r \in Runs :
            (pc[r] = "except" /\ pc'[r] # "except") =>
                /\ pc'[r] = "save"
                /\ execution'[r].status = "failed"
                /\ execution'[r].error_message = Some(exc[r].msg)]_vars

\* a handler fault (float() on "abc") ended as a returned failed record
C1_Witness ==
    \E r \in Runs :
        /\ Returned_(r)
        /\ execution[r].status = "failed"
        /\ execution[r].error_message = Some(<<"could not convert string to float: ", "abc">>)

(***************************************************************************)
(* C2: a workflow without any trigger node (the empty node list included)  *)
(* ends failed with the message "No trigger node found in workflow"; no    *)
(* node is visited: the log never holds a node_start entry and             *)
(* current_node_id is never set.                                           *)
(***************************************************************************)
C2_NoTriggerFails ==
    \A r \in Runs :
        ~HasTrigger(workflow[r]) =>
            /\ execution[r].current_node_id = None
            /\ db[r].current_node_id = None
            /\ ~HasEvent(LogOf(r), "node_start")
            /\ pc[r] \notin {"node", "edges", "await", "complete"}
            /\ pc[r] \in {"save", "returned"} =>
                 /\ execution[r].status = "failed"
                 /\ execution[r].error_message = Some(<<"No trigger node found in workflow">>)
            /\ Returned_(r) =>
                 /\ ~HasEvent(ReturnedLog(r), "node_start")
                 /\ db[r].status = "failed"

\* a non-empty node list without trigger has been executed and returned
C2_Witness ==
    \E r \in Runs :
        /\ Returned_(r)
        /\ ~HasTrigger(workflow[r])
        /\ Len(workflow[r].nodes) > 0

(***************************************************************************)
(* C3: when the traversal reaches an action node whose action id is not    *)
(* registered, the execution ends failed, the error message contains the   *)
(* action id, and the log holds the node_start entry of that node but no   *)
(* node_complete entry for it.                                             *)
(***************************************************************************)
Registered(action_id) == action_id \in DOMAIN registry /\ registry[action_id].handler # None
Contains_(msg, piece) == \E i \in 1..Len(msg) : msg[i] = piece

C3_UnknownActionFails ==
    \A r \in Runs : \A i \in 1..Len(workflow[r].nodes) :
        LET node == workflow[r].nodes[i]
        IN (/\ node.type = "action"
            /\ ~Registered(node.actionId)
            /\ HasEntry(LogOf(r), "node_start", node.id)) =>
               /\ ~HasEntry(LogOf(r), "node_complete", node.id)
               /\ pc[r] \in {"except", "save", "returned"}
               /\ pc[r] \in {"save", "returned"} =>
                    /\ execution[r].status = "failed"
                    /\ execution[r].error_message.set
                    /\ Contains_(execution[r].error_message.v, PyStr(node.actionId))
               /\ Returned_(r) =>
                    /\ HasEntry(ReturnedLog(r), "node_start", node.id)
                    /\ ~HasEntry(ReturnedLog(r), "node_complete", node.id)
                    /\ db[r].status = "failed"

\* the unknown action was reached after other nodes had completed
C3_Witness ==
    \E r \in Runs :
        /\ Returned_(r)
        /\ HasEntry(ReturnedLog(r), "node_start", "u")
        /\ HasEntry(ReturnedLog(r), "node_complete", "a")
        /\ execution[r].error_message = Some(<<"Unknown action: ", "nope">>)


(***************************************************************************)
(* Counting visits in a log.                                               *)
(***************************************************************************)
\* number of node_start entries of a node
Starts(log, node_id) ==
    Cardinality({ i \in 1..Len(log) : log[i].event = "node_start" /\ log[i].data.node_id = node_id })
\* the branch rule: handle "true" with a true result, or "false" with a false one
HandleMatches(handle, result) == (handle = "true" /\ result) \/ (handle = "false" /\ ~result)
\* the boolean a condition node's node_complete entry reports
ReportedTrue(entry) == Truthy(Get(entry.data.result, "result", VBool(FALSE)))
TypeOfId(wf, node_id) ==
    IF _get_node_by_id(node_id, wf.nodes) = 0 THEN None
    ELSE wf.nodes[_get_node_by_id(node_id, wf.nodes)].type
\* number of (edge into the node, completed visit of the edge's condition source
\* whose result matches the edge's handle) pairs
MatchingInto(log, wf, node_id) ==
    Cardinality({ p \in (1..Len(wf.edges)) \X (1..Len(log)) :
        /\ wf.edges[p[1]].target = node_id
        /\ log[p[2]].event = "node_complete"
        /\ log[p[2]].data.node_id = wf.edges[p[1]].source
        /\ HandleMatches(wf.edges[p[1]].sourceHandle, ReportedTrue(log[p[2]])) })
\* nodes that can only be entered through edges leaving condition nodes
ConditionFed(wf) ==
    { k \in 1..Len(wf.nodes) :
        /\ k # _find_trigger_node(wf.nodes)
        /\ k = _get_node_by_id(wf.nodes[k].id, wf.nodes)
        /\ \E j \in 1..Len(wf.edges) : wf.edges[j].target = wf.nodes[k].id
        /\ \A j \in 1..Len(wf.edges) :
              wf.edges[j].target = wf.nodes[k].id => TypeOfId(wf, wf.edges[j].source) = "condition" }

(***************************************************************************)
(* C4 as stated: in every returned record, for every visited condition     *)
(* node, the target of an outgoing edge is visited through that edge if    *)
(* and only if the handle matches the evaluated result: a node entered     *)
(* only from condition nodes is started exactly once per matching edge and *)
(* completed visit of the edge's source.                                   *)
(***************************************************************************)
C4_Original ==
    \A r \in Runs :
        Returned_(r) =>
            \A k \in ConditionFed(workflow[r]) :
                Starts(ReturnedLog(r), workflow[r].nodes[k].id)
                    = MatchingInto(ReturnedLog(r), workflow[r], workflow[r].nodes[k].id)

(***************************************************************************)
(* C4 amended: a target is never visited through an edge of a condition    *)
(* node whose handle does not match the result (a node reachable only      *)
(* through non-matching edges never appears in the log), and in an         *)
(* execution that completes every matching edge of every visited condition *)
(* node is followed; an execution aborted by a fatal error leaves matching *)
(* edges that were still pending unfollowed.                               *)
(***************************************************************************)
C4_BranchSelection ==
    \A r \in Runs : \A k \in ConditionFed(workflow[r]) :
        LET id == workflow[r].nodes[k].id
        IN /\ Starts(LogOf(r), id) <= MatchingInto(LogOf(r), workflow[r], id)
           /\ (Returned_(r) /\ execution[r].status = "completed") =>
                 Starts(ReturnedLog(r), id) = MatchingInto(ReturnedLog(r), workflow[r], id)

\* 5 > 3 with a "true" edge to a and a "false" edge to b: a was visited, b was not
C4_Witness ==
    \E r \in Runs :
        /\ Returned_(r)
        /\ execution[r].status = "completed"
        /\ workflow[r].id = 4
        /\ Starts(ReturnedLog(r), "a") = 1
        /\ Starts(ReturnedLog(r), "b") = 0

(***************************************************************************)
(* C5: when a visited condition node has no outgoing edge whose handle     *)
(* matches the result, the loop over its edges visits nothing and raises   *)
(* nothing, and when no edge remains at any ancestor either the traversal  *)
(* unwinds to the end of execute() and the status becomes completed.       *)
(***************************************************************************)
FrameEdges(r, f) == _build_adjacency(workflow[r].edges, workflow[r].nodes[stack[r][f].node].id)
\* the innermost call is in the edge loop of a condition node none of whose edges matches
DeadEnd(r) ==
    /\ pc[r] = "edges"
    /\ running = r
    /\ workflow[r].nodes[Top(stack[r]).node].type = "condition"
    /\ \A j \in 1..Len(FrameEdges(r, Len(stack[r]))) :
          ~HandleMatches(FrameEdges(r, Len(stack[r]))[j].sourceHandle,
                         Truthy(Get(Top(stack[r]).result, "result", VBool(FALSE))))
\* no edge is left to examine at any ancestor call
NoBranchRemains(r) ==
    \A f \in 1..(Len(stack[r]) - 1) : stack[r][f].ei > Len(FrameEdges(r, f))
\* every call on the stack has finished its edge loop
Unwinding(r) ==
    /\ pc[r] = "edges"
    /\ running = r
    /\ \A f \in 1..Len(stack[r]) : stack[r][f].ei > Len(FrameEdges(r, f))

C5_DeadEndIsSilent ==
    /\ [][\A r \in Runs :
            DeadEnd(r) =>
                /\ Len(stack'[r]) <= Len(stack[r])
                /\ pc'[r] \in {"edges", "complete"}
                /\ exc'[r] = exc[r]
                /\ LogOf(r)' = LogOf(r)]_vars
    /\ [][\A r \in Runs :
            ((DeadEnd(r) /\ NoBranchRemains(r)) \/ Unwinding(r)) =>
                \/ (DeadEnd(r) /\ NoBranchRemains(r))'
                \/ Unwinding(r)'
                \/ pc'[r] = "complete"]_vars
    /\ [][\A r \in Runs :
            (pc[r] = "complete" /\ pc'[r] # "complete") =>
                /\ pc'[r] = "save"
                /\ execution'[r].status = "completed"
                /\ ~execution'[r].error_message.set]_vars

\* the condition was true, its only edge has handle "false", and the run completed
\* with the condition's node_complete as last log entry
C5_Witness ==
    \E r \in Runs :
        /\ Returned_(r)
        /\ execution[r].status = "completed"
        /\ LET log == ReturnedLog(r)
           IN /\ Len(log) > 0
              /\ log[Len(log)].event = "node_complete"
              /\ log[Len(log)].data.node_id = "c"
              /\ ReportedTrue(log[Len(log)])
        /\ Len(_build_adjacency(workflow[r].edges, "c")) = 1
        /\ _build_adjacency(workflow[r].edges, "c")[1].sourceHandle = "false"
        /\ _get_node_by_id(_build_adjacency(workflow[r].edges, "c")[1].target, workflow[r].nodes) # 0

(***************************************************************************)
(* C6 as stated: trigger -> A (data.set_variable name=x value=1) -> output *)
(* returns status completed and output_data exactly {"x": 1}.              *)
(***************************************************************************)
IsSetXWorkflow(wf) ==
    /\ wf.nodes = <<nT, nA, nO>>
    /\ wf.edges = <<Edge("t", "a", None), Edge("a", "o", None)>>

C6_Original ==
    \A r \in Runs :
        (Returned_(r) /\ IsSetXWorkflow(workflow[r])) =>
            /\ execution[r].status = "completed"
            /\ ReturnedOutput(r) = DictSet(EmptyDict, "x", VNum(1))

(***************************************************************************)
(* C6 amended: that workflow returns status completed and output_data      *)
(* {"x": 1, "_a_result": {"success": true}}: the variable written by the   *)
(* handler plus the raw result the interpreter stores for the action node. *)
(***************************************************************************)
C6_SetVariableOutput ==
    \A r \in Runs :
        (Returned_(r) /\ IsSetXWorkflow(workflow[r])) =>
            /\ execution[r].status = "completed"
            /\ db[r].output_data = execution[r].output_data
            /\ ReturnedOutput(r) =
                 [keys |-> <<"x", "_a_result">>,
                  val |-> [x |-> VNum(1), _a_result |-> VDict([success |-> VBool(TRUE)])]]

C6_Witness ==
    \E r \in Runs :
        /\ Returned_(r)
        /\ IsSetXWorkflow(workflow[r])
        /\ DictGet(ReturnedOutput(r), "x", VNone) = VNum(1)


(***************************************************************************)
(* C7: executions that run concurrently, each started by its own execute   *)
(* request, are isolated: the log buffer, the context and the variables    *)
(* of a run change only in steps of that run, the returned record is built *)
(* from the run's own buffers, its log names only nodes of its own         *)
(* workflow and starts its trigger once, and its output_data holds only    *)
(* keys its own nodes write.  The catalog is the only shared object.       *)
(***************************************************************************)
\* run r takes the step
Acts(r) == pc'[r] # pc[r] \/ stack'[r] # stack[r]
\* the keys the nodes of a workflow can write into variables
OwnKeys(wf) ==
    { ResultKey(wf.nodes[i]) : i \in { k \in 1..Len(wf.nodes) : wf.nodes[k].type = "action" } }
    \cup { Get(wf.nodes[i].config, "name", VNone).s :
             i \in { k \in 1..Len(wf.nodes) : wf.nodes[k].actionId = "data.set_variable" } }
Overlap(r1, r2) ==
    /\ r1 # r2
    /\ Returned_(r1) /\ Returned_(r2)
    /\ execution[r1].started_at < execution[r2].started_at
    /\ execution[r2].started_at < execution[r1].completed_at

C7_Isolation ==
    /\ [][\A r \in Runs :
            ~Acts(r) =>
                /\ execution_log'[exOf[r]] = execution_log[exOf[r]]
                /\ context'[exOf[r]] = context[exOf[r]]
                /\ context[exOf[r]].set =>
                     heap'[context[exOf[r]].variables] = heap[context[exOf[r]].variables]
                /\ execution'[r] = execution[r]
                /\ db'[r] = db[r]]_vars
    /\ [](\A r \in Runs :
            Returned_(r) =>
                /\ context[exOf[r]].execution_id = execution[r].id
                /\ execution[r].execution_log = Some(DumpLog(LogOf(r), heap))
                /\ \A i \in 1..Len(ReturnedLog(r)) :
                      ReturnedLog(r)[i].event \in {"node_start", "node_complete"} =>
                          ReturnedLog(r)[i].data.node_id \in NodeIds(workflow[r])
                /\ Starts(ReturnedLog(r), "t") = 1
                /\ execution[r].status = "completed" =>
                      /\ ReturnedOutput(r) = heap[context[exOf[r]].variables]
                      /\ \A i \in 1..Len(ReturnedOutput(r).keys) :
                            ReturnedOutput(r).keys[i] \in OwnKeys(workflow[r]))

\* two runs of the same workflow overlapped in time and both wrote variables
C7_Witness ==
    \E r1, r2 \in Runs :
        /\ Overlap(r1, r2)
        /\ workflow[r1] = workflow[r2]
        /\ execution[r1].status = "completed"
        /\ execution[r2].status = "completed"
        /\ DictHas(ReturnedOutput(r1), "x")
        /\ DictHas(ReturnedOutput(r2), "x")

(***************************************************************************)
(* C8 as stated: two runs of the same workflow with the same input return  *)
(* identical output_data and logs of identical shape (timestamps aside),   *)
(* for every workflow whose action nodes use data.*, logic.condition,      *)
(* email.send or notification.push.                                        *)
(***************************************************************************)
\* a log without its timestamps
Shape(log) == [i \in 1..Len(log) |-> [event |-> log[i].event, data |-> log[i].data]]
UsesOnly(wf, ids) ==
    \A i \in 1..Len(wf.nodes) : wf.nodes[i].type = "action" => wf.nodes[i].actionId \in ids
SameRequest(r1, r2) ==
    /\ r1 # r2
    /\ Returned_(r1) /\ Returned_(r2)
    /\ workflow[r1] = workflow[r2]
    /\ input[r1] = input[r2]
SameResult(r1, r2) ==
    /\ execution[r1].status = execution[r2].status
    /\ execution[r1].output_data = execution[r2].output_data
    /\ execution[r1].error_message = execution[r2].error_message
    /\ Shape(ReturnedLog(r1)) = Shape(ReturnedLog(r2))
PureActions == {"data.log", "data.set_variable", "data.transform", "logic.condition", "notification.push"}

C8_Original ==
    \A r1, r2 \in Runs :
        (SameRequest(r1, r2) /\ UsesOnly(workflow[r1], PureActions \cup {"email.send"})) =>
            SameResult(r1, r2)

(***************************************************************************)
(* C8 amended: the two records are identical (timestamps aside) for every  *)
(* workflow whose action nodes use data.*, logic.condition or              *)
(* notification.push; email.send is excluded, because its message_id is    *)
(* derived from the address of the run's config object.                    *)
(***************************************************************************)
C8_Idempotence ==
    \A r1, r2 \in Runs :
        (SameRequest(r1, r2) /\ UsesOnly(workflow[r1], PureActions)) =>
            /\ SameResult(r1, r2)
            /\ execution[r1].id # execution[r2].id

\* the same workflow ran twice at different times, through set_variable, condition,
\* log, transform and push
C8_Witness ==
    \E r1, r2 \in Runs :
        /\ SameRequest(r1, r2)
        /\ UsesOnly(workflow[r1], PureActions)
        /\ execution[r1].started_at # execution[r2].started_at
        /\ execution[r1].status = "completed"
        /\ HasEntry(ReturnedLog(r1), "node_complete", "p")
        /\ HasEntry(ReturnedLog(r2), "node_complete", "f")

(***************************************************************************)
(* C9: the status of an execution record only moves forward along          *)
(* pending -> running -> completed | failed: a returned record is          *)
(* completed or failed and a completed or failed status never changes.     *)
(***************************************************************************)
Forward == { <<"", "pending">>, <<"", "running">>, <<"pending", "running">>,
             <<"running", "completed">>, <<"running", "failed">> }
C9_StatusForward ==
    /\ [](\A r \in Runs :
            /\ execution[r].status \in {"", "pending", "running", "completed", "failed"}
            /\ Returned_(r) => (db[r].status \in {"completed", "failed"} /\ db[r] = execution[r]))
    /\ [][\A r \in Runs :
            /\ execution'[r].status # execution[r].status =>
                  <<execution[r].status, execution'[r].status>> \in Forward
            /\ db'[r].status # db[r].status =>
                  <<db[r].status, db'[r].status>> \in Forward]_vars

\* a record that went running -> failed and was returned
C9_Witness ==
    \E r \in Runs :
        /\ Returned_(r)
        /\ db[r].status = "failed"
        /\ db[r].started_at < db[r].completed_at

(***************************************************************************)
(* C10: a fatal error aborts the whole execution: the error event is the   *)
(* last entry of the log, no node_start follows it, all pending calls are  *)
(* abandoned (also fan-out edges still pending at ancestors) and the run   *)
(* goes straight to saving the failed record.                              *)
(***************************************************************************)
C10_FatalAborts ==
    /\ [](\A r \in Runs :
            /\ \A i \in 1..Len(LogOf(r)) : LogOf(r)[i].event = "error" => i = Len(LogOf(r))
            /\ execution[r].status = "failed" =>
                  /\ stack[r] = << >>
                  /\ pc[r] \in {"save", "returned"}
                  /\ Len(LogOf(r)) > 0
                  /\ LogOf(r)[Len(LogOf(r))].event = "error"
            /\ (Returned_(r) /\ execution[r].status = "failed") =>
                  LET log == ReturnedLog(r)
                  IN /\ log[Len(log)].event = "error"
                     /\ Some(log[Len(log)].data.message) = execution[r].error_message
                     /\ \A i \in 1..(Len(log) - 1) : log[i].event # "error")
    /\ [][\A r \in Runs :
            pc[r] = "except" =>
                /\ pc'[r] \in {"except", "save"}
                /\ Starts(LogOf(r)', "o") = Starts(LogOf(r), "o")]_vars

\* node u failed below a; the edges a -> o and t -> o were still pending and o was
\* never started
C10_Witness ==
    \E r \in Runs :
        /\ Returned_(r)
        /\ execution[r].status = "failed"
        /\ workflow[r].id = 6
        /\ HasEntry(ReturnedLog(r), "node_complete", "a")
        /\ HasEntry(ReturnedLog(r), "node_start", "u")
        /\ Starts(ReturnedLog(r), "o") = 0


(***************************************************************************)
(* C11: edges whose source is an output node are never followed: the visit *)
(* of an output node ends its call without entering the edge loop, so a    *)
(* node whose incoming edges all leave output nodes is never started,      *)
(* while the caller continues with the edges it has not yet examined.      *)
(***************************************************************************)
\* the innermost call is about to execute an output node
AtOutput(r) ==
    /\ pc[r] = "node"
    /\ running = r
    /\ workflow[r].nodes[Top(stack[r]).node].type = "output"
\* nodes that can only be entered through edges leaving output nodes
OutputFed(wf) ==
    { k \in 1..Len(wf.nodes) :
        /\ k # _find_trigger_node(wf.nodes)
        /\ k = _get_node_by_id(wf.nodes[k].id, wf.nodes)
        /\ \E j \in 1..Len(wf.edges) : wf.edges[j].target = wf.nodes[k].id
        /\ \A j \in 1..Len(wf.edges) :
              wf.edges[j].target = wf.nodes[k].id => TypeOfId(wf, wf.edges[j].source) = "output" }

C11_OutputEndsBranch ==
    /\ [](\A r \in Runs : \A k \in OutputFed(workflow[r]) :
            Starts(LogOf(r), workflow[r].nodes[k].id) = 0)
    /\ [][\A r \in Runs :
            (AtOutput(r) /\ Acts(r)) =>
                /\ Len(stack'[r]) = Len(stack[r]) - 1
                /\ \A f \in 1..Len(stack'[r]) : stack'[r][f] = stack[r][f]
                /\ pc'[r] = (IF Len(stack[r]) = 1 THEN "complete" ELSE "edges")
                /\ exc'[r] = exc[r]]_vars

\* t -> o, o -> u, t -> a: o was visited first, u behind it never, and a afterwards
C11_Witness ==
    \E r \in Runs :
        /\ Returned_(r)
        /\ workflow[r].id = 20
        /\ execution[r].status = "completed"
        /\ Starts(ReturnedLog(r), "u") = 0
        /\ \E i, j \in 1..Len(ReturnedLog(r)) :
              /\ i < j
              /\ ReturnedLog(r)[i].event = "output"
              /\ ReturnedLog(r)[j].event = "node_complete"
              /\ ReturnedLog(r)[j].data.node_id = "a"


(***************************************************************************)
(* C12: the output event logged at the visit of an output node holds a     *)
(* snapshot of the variables of that moment: what the entry serialises to  *)
(* is not changed by any later step of the run, so the record's final      *)
(* execution_log shows the variables as they were at the visit.            *)
(***************************************************************************)
C12_OutputSnapshot ==
    [][\A r \in Runs : \A i \in 1..Len(LogOf(r)) :
          LogOf(r)[i].event = "output" =>
              DumpEntry(LogOf(r)[i], heap') = DumpEntry(LogOf(r)[i], heap)]_vars


(***************************************************************************)
(* C13: when the outbound call of an http.request node fails in transport  *)
(* the handler returns {status: 0, data: null, error} instead of raising:  *)
(* the node gets its node_complete entry with that result, no exception    *)
(* propagates, the edge loop of the node is entered, and in a run that     *)
(* completes every existing target of its edges is visited.                *)
(***************************************************************************)
\* run r is suspended in the request of an http.request node
AtHttp(r) ==
    /\ pc[r] = "await"
    /\ HandlerOf(workflow[r].nodes[Top(stack[r]).node], registry) = "_action_http_request"
\* the structured result of a failed transport
TransportFailure(result) ==
    /\ DOMAIN result = {"status", "data", "error"}
    /\ result["status"] = VNum(0)
    /\ result["data"] = VNone
    /\ result["error"].k = "str"
\* log[i] is the node_complete entry of an http.request node whose transport failed
FailedRequestAt(wf, log, i) ==
    /\ log[i].event = "node_complete"
    /\ Get(log[i].data.result, "status", VNone) = VNum(0)
    /\ \E k \in 1..Len(wf.nodes) :
          wf.nodes[k].id = log[i].data.node_id /\ wf.nodes[k].actionId = "http.request"

C13_HttpAbsorbsTransportError ==
    /\ [][\A r \in Runs :
            (AtHttp(r) /\ Acts(r)) =>
                LET log == LogOf(r)'
                    last == log[Len(log)]
                IN /\ pc'[r] = "edges"
                   /\ exc'[r] = NoExc
                   /\ Len(log) = Len(LogOf(r)) + 1
                   /\ last.event = "node_complete"
                   /\ last.data.node_id = workflow[r].nodes[Top(stack[r]).node].id
                   /\ \/ TransportFailure(last.data.result)
                      \/ Get(last.data.result, "status", VNone) = VNum(200)]_vars
    /\ [](\A r \in Runs :
            (Returned_(r) /\ execution[r].status = "completed") =>
                \A i \in 1..Len(ReturnedLog(r)) :
                    FailedRequestAt(workflow[r], ReturnedLog(r), i) =>
                        \A j \in 1..Len(workflow[r].edges) :
                            (/\ workflow[r].edges[j].source = ReturnedLog(r)[i].data.node_id
                             /\ workflow[r].edges[j].target \in NodeIds(workflow[r])) =>
                                Starts(ReturnedLog(r), workflow[r].edges[j].target) >= 1)

\* the request of h failed in transport, its successor n was visited and the run completed
C13_Witness ==
    \E r \in Runs :
        /\ Returned_(r)
        /\ execution[r].status = "completed"
        /\ \E i \in 1..Len(ReturnedLog(r)) :
              /\ FailedRequestAt(workflow[r], ReturnedLog(r), i)
              /\ TransportFailure(ReturnedLog(r)[i].data.result)
              /\ ReturnedLog(r)[i].data.node_id = "h"
        /\ Starts(ReturnedLog(r), "n") = 1
        /\ Starts(ReturnedLog(r), "o") = 1


(***************************************************************************)
(* C14 as stated: whenever a handler other than http.request raises, the   *)
(* execution ends failed with the error in error_message and the node that *)
(* raised has a node_start entry but no node_complete entry in the log.    *)
(***************************************************************************)
\* the messages of the faults the handlers raise
HandlerFaultMessages ==
    { "could not convert string to float: ", "float() argument must be a string or a number",
      "object has no attribute 'replace'", "unhashable type: 'dict'" }
HandlerFault(error_message) == error_message.set /\ error_message.v[1] \in HandlerFaultMessages
\* the call the innermost node is about to make raises
WillRaise(r) ==
    /\ pc[r] = "node"
    /\ running = r
    /\ LET node == workflow[r].nodes[Top(stack[r]).node]
           handler == HandlerOf(node, registry)
       IN /\ handler # None
          /\ ~Suspends(handler)
          /\ CallHandler(handler, heap[context[exOf[r]].variables], Config(1, node.config), TRUE).raised
RaisedBy(r) ==
    LET node == workflow[r].nodes[Top(stack[r]).node]
    IN CallHandler(HandlerOf(node, registry), heap[context[exOf[r]].variables],
                   Config(1, node.config), TRUE).exc

C14_Original ==
    \A r \in Runs :
        (Returned_(r) /\ HandlerFault(execution[r].error_message)) =>
            LET log == ReturnedLog(r)
            IN /\ execution[r].status = "failed"
               /\ log[Len(log) - 1].event = "node_start"
               /\ ~HasEntry(log, "node_complete", log[Len(log) - 1].data.node_id)

(***************************************************************************)
(* C14 amended: whenever a handler other than http.request raises, run     *)
(* from an action node or from a condition node, the execution ends failed *)
(* with the error in error_message, and the visit that raised has its      *)
(* node_start entry but no node_complete entry: the node_start is the last *)
(* entry before the error event.  A node_complete entry of an earlier,     *)
(* successful visit of the same node stays in the log.                     *)
(***************************************************************************)
C14_HandlerFaultFails ==
    /\ [][\A r \in Runs :
            (WillRaise(r) /\ Acts(r)) =>
                LET log == LogOf(r)'
                IN /\ pc'[r] = "except"
                   /\ exc'[r] = RaisedBy(r)
                   /\ Len(log) = Len(LogOf(r)) + 1
                   /\ log[Len(log)].event = "node_start"
                   /\ log[Len(log)].data.node_id = workflow[r].nodes[Top(stack[r]).node].id]_vars
    /\ [](\A r \in Runs :
            (pc[r] = "except" /\ exc[r].msg[1] \in HandlerFaultMessages) =>
                LogOf(r)[Len(LogOf(r))].event = "node_start")
    /\ [](\A r \in Runs :
            (Returned_(r) /\ HandlerFault(execution[r].error_message)) =>
                LET log == ReturnedLog(r)
                IN /\ execution[r].status = "failed"
                   /\ db[r].status = "failed"
                   /\ log[Len(log) - 1].event = "node_start"
                   /\ TypeOfId(workflow[r], log[Len(log) - 1].data.node_id) \in {"action", "condition"}
                   /\ log[Len(log)].event = "error"
                   /\ Some(log[Len(log)].data.message) = execution[r].error_message)

\* condition node c completed on its first visit and raised on its second, after x had
\* been overwritten with a string: the log keeps the first visit's node_complete
C14_Witness ==
    \E r \in Runs :
        /\ Returned_(r)
        /\ HandlerFault(execution[r].error_message)
        /\ workflow[r].id = 22
        /\ Starts(ReturnedLog(r), "c") = 2
        /\ HasEntry(ReturnedLog(r), "node_complete", "c")


(***************************************************************************)
(* C15: a variable written by a node is visible to every node executed     *)
(* after it in the same run, also in another fan-out branch, and no write  *)
(* is rolled back when a branch ends: the store never loses a key and only *)
(* changes while a node executes, a condition on {{x}} sees the value of   *)
(* the last completed write of x, and the output_data of a completed run   *)
(* holds the last completed write of every variable.                       *)
(***************************************************************************)
\* the node a log entry is about
NodeOf(wf, entry) == wf.nodes[_get_node_by_id(entry.data.node_id, wf.nodes)]
\* the entries before position i that report a completed data.set_variable of name
WritesBefore(wf, log, i, name) ==
    { j \in 1..(i - 1) :
        /\ log[j].event = "node_complete"
        /\ NodeOf(wf, log[j]).type = "action"
        /\ NodeOf(wf, log[j]).actionId = "data.set_variable"
        /\ Get(NodeOf(wf, log[j]).config, "name", VNone) = VStr(name) }
\* the value the last of them wrote
LastWrite(wf, log, i, name) ==
    LET w == WritesBefore(wf, log, i, name)
        j == CHOOSE k \in w : \A m \in w : m <= k
    IN Get(NodeOf(wf, log[j]).config, "value", VNone)
\* log[i] is the node_complete entry of a condition node that tests {{x}} == 1
TestsX(wf, log, i) ==
    /\ log[i].event = "node_complete"
    /\ NodeOf(wf, log[i]).type = "condition"
    /\ NodeOf(wf, log[i]).config = [left |-> VStr("{{x}}"), operator |-> VStr("=="), right |-> VNum(1)]

C15_WritesVisibleEverywhere ==
    /\ [][\A r \in Runs :
            context[exOf[r]].set =>
                LET ref == context[exOf[r]].variables
                IN /\ \A i \in 1..Len(heap[ref].keys) : DictHas(heap'[ref], heap[ref].keys[i])
                   /\ heap'[ref] # heap[ref] => pc[r] \in {"node", "await"}]_vars
    /\ [](\A r \in Runs : \A i \in 1..Len(LogOf(r)) :
            TestsX(workflow[r], LogOf(r), i) =>
                (ReportedTrue(LogOf(r)[i]) <=>
                    /\ WritesBefore(workflow[r], LogOf(r), i, "x") # {}
                    /\ PyEq(LastWrite(workflow[r], LogOf(r), i, "x"), VNum(1))))
    /\ [](\A r \in Runs :
            (Returned_(r) /\ execution[r].status = "completed") =>
                \A name \in VarNames :
                    LET log == ReturnedLog(r)
                    IN IF WritesBefore(workflow[r], log, Len(log) + 1, name) = {}
                       THEN ~DictHas(ReturnedOutput(r), name)
                       ELSE DictGet(ReturnedOutput(r), name, VNone)
                               = LastWrite(workflow[r], log, Len(log) + 1, name))

\* t -> a, t -> c, c -true-> o: a wrote x and its branch ended; c, in the next branch
\* of the trigger, saw x = 1 and went to o; output_data has x
C15_Witness ==
    \E r \in Runs :
        /\ Returned_(r)
        /\ execution[r].status = "completed"
        /\ workflow[r].edges = <<Edge("t", "a", None), Edge("t", "c", None), Edge("c", "o", "true")>>
        /\ Starts(ReturnedLog(r), "o") = 1
        /\ DictGet(ReturnedOutput(r), "x", VNone) = VNum(1)


(***************************************************************************)
(* C16: traversal starts at the first node, in node-list order, whose type *)
(* is trigger: the outermost _execute_node call is on that node, the first *)
(* log entry of the run is its node_start, and no other trigger node is    *)
(* ever the start point, wherever it stands in the list.                   *)
(***************************************************************************)
TriggerIndexes(wf) == { i \in 1..Len(wf.nodes) : wf.nodes[i].type = "trigger" }
FirstTriggerIndex(wf) == CHOOSE i \in TriggerIndexes(wf) : \A j \in TriggerIndexes(wf) : i <= j

C16_StartsAtFirstTrigger ==
    \A r \in Runs :
        HasTrigger(workflow[r]) =>
            LET first == workflow[r].nodes[FirstTriggerIndex(workflow[r])]
            IN /\ Len(stack[r]) > 0 => stack[r][1].node = FirstTriggerIndex(workflow[r])
               /\ Len(LogOf(r)) > 0 =>
                     /\ LogOf(r)[1].event = "node_start"
                     /\ LogOf(r)[1].data = [node_id |-> first.id, type |-> "trigger", action |-> first.actionId]
               /\ pc[r] \in {"edges", "complete", "save", "returned"} => Len(LogOf(r)) > 0
               /\ Returned_(r) =>
                     /\ ReturnedLog(r)[1].event = "node_start"
                     /\ ReturnedLog(r)[1].data.node_id = first.id

\* the node list starts with an action node and holds two triggers, t before t2: the
\* run started at t and t2 was never visited
C16_Witness ==
    \E r \in Runs :
        /\ Returned_(r)
        /\ Len(workflow[r].nodes) > 0
        /\ workflow[r].nodes[1].type = "action"
        /\ Cardinality(TriggerIndexes(workflow[r])) = 2
        /\ ReturnedLog(r)[1].data.node_id = "t"
        /\ Starts(ReturnedLog(r), "t2") = 0


(***************************************************************************)
(* C17: every node with a node_start entry is reachable from the first     *)
(* trigger node along a path of edges; a node without such a path is never *)
(* visited and never logged, and its defects (an unknown action id) never  *)
(* make the execution fail.                                                *)
(***************************************************************************)
RECURSIVE ReachFrom(_, _)
\* the node ids reachable from the ids in seen along edges whose target is a node
ReachFrom(wf, seen) ==
    LET more == { wf.edges[j].target : j \in { k \in 1..Len(wf.edges) :
                      wf.edges[k].source \in seen /\ wf.edges[k].target \in NodeIds(wf) } }
    IN IF more \subseteq seen THEN seen ELSE ReachFrom(wf, seen \cup more)
Reachable(wf) == IF HasTrigger(wf) THEN ReachFrom(wf, {wf.nodes[FirstTriggerIndex(wf)].id}) ELSE {}
\* the action ids of the reachable action nodes
ReachableActionIds(wf) ==
    { PyStr(wf.nodes[i].actionId) :
        i \in { k \in 1..Len(wf.nodes) : wf.nodes[k].type = "action" /\ wf.nodes[k].id \in Reachable(wf) } }

C17_OnlyReachableNodesRun ==
    \A r \in Runs :
        /\ \A i \in 1..Len(LogOf(r)) :
              LogOf(r)[i].event \in {"node_start", "node_complete"} =>
                  LogOf(r)[i].data.node_id \in Reachable(workflow[r])
        /\ \A f \in 1..Len(stack[r]) : workflow[r].nodes[stack[r][f].node].id \in Reachable(workflow[r])
        /\ execution[r].current_node_id \in Reachable(workflow[r]) \cup {None}
        /\ (execution[r].error_message.set /\ execution[r].error_message.v[1] = "Unknown action: ") =>
              execution[r].error_message.v[2] \in ReachableActionIds(workflow[r])
        /\ Returned_(r) =>
              \A i \in 1..Len(ReturnedLog(r)) :
                  ReturnedLog(r)[i].event \in {"node_start", "node_complete"} =>
                      ReturnedLog(r)[i].data.node_id \in Reachable(workflow[r])

\* node u, whose action id is unknown, has no path from the trigger: the run visited
\* other nodes and completed
C17_Witness ==
    \E r \in Runs :
        /\ Returned_(r)
        /\ execution[r].status = "completed"
        /\ "u" \in NodeIds(workflow[r]) \ Reachable(workflow[r])
        /\ Starts(ReturnedLog(r), "a") = 1
        /\ Starts(ReturnedLog(r), "u") = 0


(***************************************************************************)
(* C18: in every returned record, status is failed exactly when            *)
(* error_message is set, and then the last log entry is an error event     *)
(* with that message and output_data is not set; status is completed       *)
(* exactly when output_data is set, and then output_data equals the        *)
(* variables store at the end of the traversal and the log has no error    *)
(* event; completed_at is set in both cases.                               *)
(***************************************************************************)
C18_RecordConsistent ==
    /\ [](\A r \in Runs :
            Returned_(r) =>
                LET rec == db[r]
                    log == Loads(rec.execution_log.v)
                IN /\ rec = execution[r]
                   /\ rec.status \in {"completed", "failed"}
                   /\ rec.status = "failed" <=> rec.error_message.set
                   /\ rec.status = "completed" <=> rec.output_data.set
                   /\ rec.status = "failed" =>
                         /\ Len(log) > 0
                         /\ log[Len(log)].event = "error"
                         /\ Some(log[Len(log)].data.message) = rec.error_message
                   /\ rec.status = "completed" =>
                         /\ Loads(rec.output_data.v) = heap[context[exOf[r]].variables]
                         /\ ~HasEvent(log, "error")
                   /\ rec.completed_at # 0
                   /\ rec.started_at < rec.completed_at)
    /\ [][\A r \in Runs :
            (pc[r] = "complete" /\ Acts(r)) =>
                execution'[r].output_data = Some(Dumps(heap[context[exOf[r]].variables]))]_vars

\* a completed record with a non-empty output
C18_Witness ==
    \E r \in Runs :
        /\ Returned_(r)
        /\ db[r].status = "completed"
        /\ ~db[r].error_message.set
        /\ Len(Loads(db[r].output_data.v).keys) = 2
        /\ db[r].completed_at > db[r].started_at


(***************************************************************************)
(* C19: when an action node N completes, variables["_N_result"] holds      *)
(* exactly the result its handler returned, which is also the result of    *)
(* the node_complete entry logged for N; trigger, condition and output     *)
(* nodes add no key to the variables.                                      *)
(***************************************************************************)
Synthetic(node_id) == "_" \o PyStr(node_id) \o "_result"
\* run r takes a step that logs the node_complete entry of its innermost node
Completes(r) ==
    /\ pc[r] \in {"node", "await"}
    /\ Len(LogOf(r)') > Len(LogOf(r))
    /\ LogOf(r)'[Len(LogOf(r)')].event = "node_complete"

C19_SyntheticResultKey ==
    /\ [][\A r \in Runs :
            Completes(r) =>
                LET node == workflow[r].nodes[Top(stack[r]).node]
                    ref == context[exOf[r]].variables
                    entry == LogOf(r)'[Len(LogOf(r)')]
                IN /\ entry.data.node_id = node.id
                   /\ IF node.type = "action"
                      THEN /\ DictHas(heap'[ref], Synthetic(node.id))
                           /\ heap'[ref].val[Synthetic(node.id)] = VDict(entry.data.result)
                           /\ \E addr \in Addrs, ok \in BOOLEAN :
                                 entry.data.result =
                                    CallHandler(get(registry, node.actionId).handler, heap[ref],
                                                Config(addr, node.config), ok).result
                      ELSE heap'[ref] = heap[ref]]_vars
    /\ [][\A r \in Runs : AtOutput(r) => heap' = heap]_vars
    /\ [](\A r \in Runs : \A i \in 1..Len(workflow[r].nodes) :
            (context[exOf[r]].set
             /\ DictHas(heap[context[exOf[r]].variables], Synthetic(workflow[r].nodes[i].id))) =>
                /\ TypeOfId(workflow[r], workflow[r].nodes[i].id) = "action"
                /\ HasEntry(LogOf(r), "node_complete", workflow[r].nodes[i].id))

\* the run went through trigger, condition, action a and output: only a left a key
C19_Witness ==
    \E r \in Runs :
        /\ Returned_(r)
        /\ execution[r].status = "completed"
        /\ workflow[r].id = 4
        /\ ReturnedOutput(r).keys = <<"x", "_a_result">>
        /\ ReturnedOutput(r).val["_a_result"] = VDict([success |-> VBool(TRUE)])
        /\ HasEntry(ReturnedLog(r), "node_complete", "c")
        /\ HasEvent(ReturnedLog(r), "output")


(***************************************************************************)
(* C20: after any sequence of register calls, get(id) returns the          *)
(* definition most recently registered under id: a register call makes     *)
(* get return the registered definition for its id and changes what get    *)
(* returns for no other id; get returns None, without failing, for an id   *)
(* never registered; the eight built-in ids are present from construction. *)
(***************************************************************************)
BuiltinIds ==
    { "data.log", "data.set_variable", "data.transform", "email.send", "notification.push",
      "logic.condition", "logic.delay", "http.request" }
\* the ids get is asked for: the built-in ones, the registerable ones, one never registered
ProbeIds == BuiltinIds \cup {"custom.a", "custom.b", "never.registered", None}

C20_LastWriteWins ==
    /\ [](\A id \in BuiltinIds : get(registry, id) # NoAction /\ get(registry, id).id = id)
    /\ [](\A id \in ProbeIds : id \notin DOMAIN registry => get(registry, id) = NoAction)
    /\ [](get(registry, "never.registered") = NoAction)
    /\ [](\A id \in ProbeIds :
            IF id \in DOMAIN registered
            THEN get(registry, id) = registered[id]
            ELSE get(registry, id) = NoAction)
    /\ [][\E action \in RegisterableActions :
            /\ get(registry', action.id) = action
            /\ \A id \in ProbeIds \ {action.id} : get(registry', id) = get(registry, id)]_vars

\* data.log was registered again with another definition, custom.a was registered and
\* custom.b never
C20_Witness ==
    /\ get(registry, "data.log") = ActionDefinition("data.log", "custom", "_action_delay")
    /\ get(registry, "custom.a") = ActionDefinition("custom.a", "custom", None)
    /\ get(registry, "custom.b") = NoAction
    /\ \A id \in BuiltinIds \ {"data.log"} : get(registry, id) = get(_register_builtin_actions, id)


(***************************************************************************)
(* C21: logic.condition resolves each operand on its own: a string operand *)
(* "{{name}}" becomes variables[name] when name is a key of variables and  *)
(* stays the literal string when it is not, any other operand is used as   *)
(* given; the result is the operator applied to the two resolved operands. *)
(***************************************************************************)
PlaceholderNames == {"x", "y", "zz"}
ExpectedOperand(operand, variables) ==
    IF operand.k = "str" /\ \E name \in PlaceholderNames : operand.s = "{{" \o name \o "}}"
    THEN LET name == CHOOSE nm \in PlaceholderNames : operand.s = "{{" \o nm \o "}}"
         IN IF \E i \in 1..Len(variables.keys) : variables.keys[i] = name
            THEN variables.val[name]
            ELSE operand
    ELSE operand
\* Python numbers: int, float and bool compare by value
IsNumber(v) == v.k \in {"num", "bool"}
SameValue(a, b) == IF IsNumber(a) /\ IsNumber(b) THEN a.n = b.n ELSE a = b
\* float(v) is defined on numbers and on numeric strings
Coercible(v) == IsNumber(v) \/ v = VStr("5") \/ v = VStr("3")
NumberOf(v) == IF v = VStr("5") THEN 5 ELSE IF v = VStr("3") THEN 3 ELSE v.n
Compare(operator, a, b) ==
    CASE operator = ">"  -> a > b
      [] operator = "<"  -> a < b
      [] operator = ">=" -> a >= b
      [] OTHER           -> a <= b
ConditionCalled == call.done /\ call.handler = "_action_condition"

C21_OperandResolution ==
    ConditionCalled =>
        LET left == ExpectedOperand(Get(call.config.d, "left", VNone), call.variables)
            right == ExpectedOperand(Get(call.config.d, "right", VNone), call.variables)
            operator == Get(call.config.d, "operator", VStr("==")).s
            Is(b) == ~call.out.raised /\ call.out.result = [result |-> VBool(b)]
        IN /\ call.out.variables = call.variables
           /\ operator = "==" => Is(SameValue(left, right))
           /\ operator = "!=" => Is(~SameValue(left, right))
           /\ operator \in {">", "<", ">=", "<="} =>
                 IF Coercible(left) /\ Coercible(right)
                 THEN Is(Compare(operator, NumberOf(left), NumberOf(right)))
                 ELSE call.out.raised /\ call.out.exc.type \in {"ValueError", "TypeError"}
           /\ operator = "contains" => Is(Contains(StrOf(left), StrOf(right)))

\* left is "{{zz}}", which no variable defines, and right is "{{x}}" with x = 1: the
\* literal string was compared with 1
C21_Witness ==
    /\ ConditionCalled
    /\ call.config.d = [left |-> VStr("{{zz}}"), operator |-> VStr("!="), right |-> VStr("{{x}}")]
    /\ call.variables = [keys |-> <<"x">>, val |-> [x |-> VNum(1)]]
    /\ call.out.result = [result |-> VBool(TRUE)]


(***************************************************************************)
(* C22: data.transform returns the template with every "{{name}}"          *)
(* placeholder of every string field, at any depth of objects and arrays,  *)
(* replaced by the value of variables[name]; a placeholder whose name is   *)
(* not in variables is left as it is, other leaves pass through, and the   *)
(* variables store is not modified.                                        *)
(***************************************************************************)
\* the text before the placeholder in the strings of the templates
TextBefore == {"", "hi "}
\* a string with its placeholder replaced by the value of the variable it names
Substituted(str, variables) ==
    IF \E pre \in TextBefore, name \in PlaceholderNames :
          /\ str = pre \o "{{" \o name \o "}}"
          /\ \E i \in 1..Len(variables.keys) : variables.keys[i] = name
    THEN LET pn == CHOOSE p \in TextBefore \X PlaceholderNames : str = p[1] \o "{{" \o p[2] \o "}}"
         IN pn[1] \o StrOf(variables.val[pn[2]])
    ELSE str
RECURSIVE ExpectedTransform(_, _)
ExpectedTransform(obj, variables) ==
    CASE obj.k = "str"  -> VStr(Substituted(obj.s, variables))
      [] obj.k = "dict" -> VDict([kk \in DOMAIN obj.d |-> ExpectedTransform(obj.d[kk], variables)])
      [] obj.k = "list" -> VList([i \in DOMAIN obj.d |-> ExpectedTransform(obj.d[i], variables)])
      [] OTHER          -> obj
TransformCalled == call.done /\ call.handler = "_action_transform"

C22_TransformSubstitutes ==
    TransformCalled =>
        /\ ~call.out.raised
        /\ call.out.variables = call.variables
        /\ call.out.result =
              [result |-> ExpectedTransform(Get(call.config.d, "template", VDict(<< >>)), call.variables)]


(***************************************************************************)
(* C23 as stated: from a visited node that is not a condition node every   *)
(* outgoing edge whose target exists is followed, whatever its handle: in  *)
(* a returned record the target of every such edge has been started.       *)
(***************************************************************************)
\* edge j leaves a node that completed and is not a condition node, and its target exists
Unconditional(wf, log, j) ==
    /\ TypeOfId(wf, wf.edges[j].source) \notin {"condition", "output", None}
    /\ HasEntry(log, "node_complete", wf.edges[j].source)
    /\ wf.edges[j].target \in NodeIds(wf)

C23_Original ==
    \A r \in Runs :
        Returned_(r) =>
            \A j \in 1..Len(workflow[r].edges) :
                Unconditional(workflow[r], ReturnedLog(r), j) =>
                    Starts(ReturnedLog(r), workflow[r].edges[j].target) >= 1

(***************************************************************************)
(* C23 amended: whenever the edge loop of a visited node that is not a     *)
(* condition node reaches an edge whose target exists, the edge is         *)
(* followed whatever its handle is ("false", "true", another string, no    *)
(* handle), so in a run that completes the target of every such edge has   *)
(* been started; edges the loop has not reached when a fatal error aborts  *)
(* the run are not followed.                                               *)
(***************************************************************************)
\* the edge loop of the innermost call, on a node that is not a condition node, is at
\* an edge whose target exists
AtUnconditionalEdge(r) ==
    /\ pc[r] = "edges"
    /\ running = r
    /\ workflow[r].nodes[Top(stack[r]).node].type # "condition"
    /\ Top(stack[r]).ei <= Len(FrameEdges(r, Len(stack[r])))
    /\ FrameEdges(r, Len(stack[r]))[Top(stack[r]).ei].target \in NodeIds(workflow[r])

C23_UnconditionalEdges ==
    /\ [][\A r \in Runs :
            (AtUnconditionalEdge(r) /\ Acts(r)) =>
                IF Len(stack[r]) >= MaxDepth
                THEN pc'[r] = "except" /\ exc'[r].type = "RecursionError"
                ELSE /\ pc'[r] = "node"
                     /\ Len(stack'[r]) = Len(stack[r]) + 1
                     /\ workflow[r].nodes[Top(stack'[r]).node].id
                           = FrameEdges(r, Len(stack[r]))[Top(stack[r]).ei].target]_vars
    /\ [](\A r \in Runs :
            (Returned_(r) /\ execution[r].status = "completed") =>
                \A j \in 1..Len(workflow[r].edges) :
                    Unconditional(workflow[r], ReturnedLog(r), j) =>
                        Starts(ReturnedLog(r), workflow[r].edges[j].target) >= 1)

\* edges with handle "false", "true" and "maybe" out of a trigger, an action and a
\* note node were all followed
C23_Witness ==
    \E r \in Runs :
        /\ Returned_(r)
        /\ workflow[r].id = 24
        /\ execution[r].status = "completed"
        /\ Starts(ReturnedLog(r), "a") = 1
        /\ Starts(ReturnedLog(r), "b") = 1
        /\ Starts(ReturnedLog(r), "n") = 1
        /\ Starts(ReturnedLog(r), "o") = 1


(***************************************************************************)
(* C24: fan-out is executed depth-first in edge-list order: the target of  *)
(* an edge is started by the innermost active call only, the calls below   *)
(* it do not move while it is active, and a call takes its edges in the    *)
(* order of the workflow's edge list; so in a completed run of a workflow  *)
(* without condition nodes the nodes are started in the depth-first        *)
(* pre-order of the edge list, whatever the order of the node list.        *)
(***************************************************************************)
\* the edges leaving a node, in the order of the workflow's edge list
EdgesOutOf(wf, node_id) == SelectSeq(wf.edges, LAMBDA e : e.source = node_id)
\* index of the first node with this id, 0 when there is none
FirstWithId(wf, node_id) ==
    IF node_id \in NodeIds(wf)
    THEN CHOOSE i \in 1..Len(wf.nodes) :
            wf.nodes[i].id = node_id /\ \A j \in 1..(i - 1) : wf.nodes[j].id # node_id
    ELSE 0

RECURSIVE Preorder(_, _), PreorderFrom(_, _, _)
\* the node ids in the order a depth-first walk from node i starts them
Preorder(wf, i) ==
    <<wf.nodes[i].id>> \o
        (IF wf.nodes[i].type = "output" THEN << >> ELSE PreorderFrom(wf, wf.nodes[i].id, 1))
\* the same for the edges k, k + 1, ... of a node, one after the other
PreorderFrom(wf, node_id, k) ==
    IF k > Len(EdgesOutOf(wf, node_id)) THEN << >>
    ELSE (IF FirstWithId(wf, EdgesOutOf(wf, node_id)[k].target) = 0 THEN << >>
          ELSE Preorder(wf, FirstWithId(wf, EdgesOutOf(wf, node_id)[k].target)))
         \o PreorderFrom(wf, node_id, k + 1)

\* the node ids of the node_start entries of a log, in log order
StartedIds(log) ==
    LET starts == SelectSeq(log, LAMBDA entry : entry.event = "node_start")
    IN [i \in 1..Len(starts) |-> starts[i].data.node_id]

NoConditionNode(wf) == \A i \in 1..Len(wf.nodes) : wf.nodes[i].type # "condition"

C24_DepthFirstEdgeOrder ==
    /\ [][\A r \in Runs :
            /\ \* the calls below the innermost one do not move
               \A f \in 1..(Len(stack[r]) - 1) : f <= Len(stack'[r]) => stack'[r][f] = stack[r][f]
            /\ \* a call goes through its edges forwards, one at a time
               (Len(stack'[r]) >= Len(stack[r]) /\ Len(stack[r]) > 0) =>
                    /\ stack'[r][Len(stack[r])].node = Top(stack[r]).node
                    /\ stack'[r][Len(stack[r])].ei \in {Top(stack[r]).ei, Top(stack[r]).ei + 1}
            /\ \* a node is started from the edge the innermost call is at
               (Len(stack'[r]) > Len(stack[r]) /\ Len(stack[r]) > 0) =>
                    LET caller == workflow[r].nodes[Top(stack[r]).node]
                    IN /\ Len(stack'[r]) = Len(stack[r]) + 1
                       /\ Top(stack'[r]).node =
                            FirstWithId(workflow[r], EdgesOutOf(workflow[r], caller.id)[Top(stack[r]).ei].target)]_vars
    /\ [](\A r \in Runs :
            (Returned_(r) /\ execution[r].status = "completed" /\ NoConditionNode(workflow[r])) =>
                StartedIds(ReturnedLog(r)) = Preorder(workflow[r], FirstTriggerIndex(workflow[r])))

\* b and everything below it (n, o) ran before a, which comes first in the node list
C24_Witness ==
    \E r \in Runs :
        /\ Returned_(r)
        /\ workflow[r].id = 25
        /\ execution[r].status = "completed"
        /\ StartedIds(ReturnedLog(r)) = <<"t", "b", "n", "o", "a", "o">>


(***************************************************************************)
(* C25: current_node_id is set to a node's id before the node's node_start *)
(* entry is appended and before its handler runs: the step that appends a  *)
(* node_start entry leaves the node's id in the record and in the          *)
(* committed row, while a handler is suspended both hold the id of its     *)
(* node, and in every state, the terminal record included,                 *)
(* current_node_id is the id of the last node started (None when no node   *)
(* was started).                                                           *)
(***************************************************************************)
LastStarted(log) ==
    IF Len(StartedIds(log)) = 0 THEN None ELSE StartedIds(log)[Len(StartedIds(log))]

Extends(longer, shorter) ==
    /\ Len(shorter) <= Len(longer)
    /\ SubSeq(longer, 1, Len(shorter)) = shorter

C26_LogAppendOnly ==
    /\ [][\A r \in Runs :
            /\ Extends(LogOf(r)', LogOf(r))
            /\ (db[r].status # "" /\ db'[r].execution_log # db[r].execution_log) =>
                    /\ pc[r] = "save" /\ pc'[r] = "returned"
                    /\ db[r].execution_log = Some(Dumps(<< >>))
                    /\ db'[r].execution_log = Some(DumpLog(LogOf(r), heap))
                    /\ db'[r].status \in {"completed", "failed"}]_vars
    /\ [](\A r \in Runs :
            /\ db[r].status = "running" => db[r].execution_log = Some(Dumps(<< >>))
            /\ Returned_(r) => db[r].execution_log = Some(DumpLog(LogOf(r), heap)))

\* a handler is suspended in the middle of a run: the log has steps, the row has none
C26_Witness ==
    \E r \in Runs :
        /\ pc[r] = "await"
        /\ Len(LogOf(r)) >= 3
        /\ db[r].status = "running"
        /\ db[r].current_node_id # None
        /\ db[r].execution_log = Some(Dumps(<< >>))


(***************************************************************************)
(* C27: for a workflow in which no cycle of edges is reachable from the    *)
(* trigger the execution eventually reaches a terminal status, completed   *)
(* or failed, and the calls never nest deeper than the workflow has nodes. *)
(***************************************************************************)
\* the nodes reachable from a node by one edge or more
Descendants(wf, node_id) ==
    ReachFrom(wf, { wf.edges[j].target :
                      j \in { k \in 1..Len(wf.edges) :
                                wf.edges[k].source = node_id /\ wf.edges[k].target \in NodeIds(wf) } })
CycleReachable(wf) == \E n \in Reachable(wf) : n \in Descendants(wf, n)

C27_AcyclicTerminates ==
    /\ <>(\A r \in Runs :
            (pc[r] # "absent" /\ ~CycleReachable(workflow[r]))
                => (Returned_(r) /\ execution[r].status \in {"completed", "failed"}))
    /\ [](\A r \in Runs :
            ~CycleReachable(workflow[r]) => Len(stack[r]) <= Cardinality(NodeIds(workflow[r])))

\* a run over two branches that meet again has returned
C27_Witness ==
    \E r \in Runs :
        /\ Returned_(r)
        /\ workflow[r].id = 25
        /\ ~CycleReachable(workflow[r])
        /\ execution[r].status = "completed"
        /\ Starts(ReturnedLog(r), "o") = 2


(***************************************************************************)
(* C28 as stated: once the traversal has entered a cycle of the edge set,  *)
(* a node being entered again while it is still executing further up the   *)
(* call chain, the execution never reaches completed.                      *)
(***************************************************************************)
Reentered(r) ==
    \E f \in 1..Len(stack[r]) : \E g \in (f + 1)..Len(stack[r]) : stack[r][f].node = stack[r][g].node

C28_Original ==
    \A r \in Runs : [](Reentered(r) => [](execution[r].status # "completed"))

(***************************************************************************)
(* C28 amended: there is no visited-node guard, so a cycle whose edges all *)
(* leave nodes that are neither condition nor output nodes, reached from   *)
(* the trigger through such edges, is gone around again and again until    *)
(* the recursion fails: the traversal never returns normally, the          *)
(* execution never reaches completed and ends failed.  (A cycle that leads *)
(* through a condition node is left as soon as the branch taken changes,   *)
(* and such an execution can complete.)                                    *)
(***************************************************************************)
\* the edges that are followed whatever happens: out of a node that is neither a
\* condition nor an output node, into a node that exists
Unbroken(wf, j) ==
    /\ TypeOfId(wf, wf.edges[j].source) \notin {"condition", "output", None}
    /\ wf.edges[j].target \in NodeIds(wf)
RECURSIVE UnbrokenFrom(_, _)
UnbrokenFrom(wf, seen) ==
    LET more == { wf.edges[j].target :
                    j \in { k \in 1..Len(wf.edges) : wf.edges[k].source \in seen /\ Unbroken(wf, k) } }
    IN IF more \subseteq seen THEN seen ELSE UnbrokenFrom(wf, seen \cup more)
UnbrokenDescendants(wf, node_id) ==
    UnbrokenFrom(wf, { wf.edges[j].target :
                         j \in { k \in 1..Len(wf.edges) : wf.edges[k].source = node_id /\ Unbroken(wf, k) } })
UnbrokenCycle(wf) ==
    /\ HasTrigger(wf)
    /\ \E n \in UnbrokenFrom(wf, {wf.nodes[FirstTriggerIndex(wf)].id}) : n \in UnbrokenDescendants(wf, n)

RecursionErrorMessage == <<"maximum recursion depth exceeded">>

C28_UnbrokenCycleFails ==
    \A r \in Runs :
        /\ UnbrokenCycle(workflow[r]) =>
                /\ execution[r].status # "completed"
                /\ pc[r] # "complete"
                /\ Returned_(r) => execution[r].status = "failed"
        /\ (Returned_(r) /\ execution[r].error_message = Some(RecursionErrorMessage)) =>
                \E n \in NodeIds(workflow[r]) :
                    /\ n \in Descendants(workflow[r], n)
                    /\ Starts(ReturnedLog(r), n) >= 2

\* the self-loop a -> a was gone around until the recursion failed
C28_Witness ==
    \E r \in Runs :
        /\ Returned_(r)
        /\ workflow[r].id = 15
        /\ execution[r].status = "failed"
        /\ execution[r].error_message = Some(RecursionErrorMessage)
        /\ Starts(ReturnedLog(r), "a") = MaxDepth - 1


(***************************************************************************)
(* C29: every run starts from a fresh context and an empty log: when one   *)
(* executor instance is used for one run after the other, a run begins     *)
(* with empty variables, an empty log and its own input, and the record it *)
(* returns holds only steps taken after it started and only variables its  *)
(* own nodes wrote, whether the run before completed or failed.            *)
(***************************************************************************)
KeysOf(dict) == { dict.keys[i] : i \in 1..Len(dict.keys) }
\* run r1 returned before run r2 started, on the same executor
Before(r1, r2) ==
    /\ r1 # r2
    /\ exOf[r1] = exOf[r2]
    /\ Returned_(r1)
    /\ execution[r2].status # ""
    /\ execution[r1].completed_at < execution[r2].started_at

C29_FreshStart ==
    /\ [][\A r \in Runs :
            (pc[r] = "init" /\ pc'[r] # "init") =>
                /\ LogOf(r)' = << >>
                /\ context'[exOf[r]].input = OrEmpty(input[r])
                /\ context'[exOf[r]].execution_id = execution[r].id
                /\ heap'[context'[exOf[r]].variables] = EmptyDict]_vars
    /\ [](\A r \in Runs :
            Returned_(r) =>
                /\ \A i \in 1..Len(ReturnedLog(r)) :
                        ReturnedLog(r)[i].timestamp > execution[r].started_at
                /\ execution[r].status = "completed" =>
                        KeysOf(ReturnedOutput(r)) \subseteq OwnKeys(workflow[r]))

\* the first run failed after writing x and y, the second one, on the same executor,
\* completed with neither of them in its output
C29_Witness ==
    \E r1, r2 \in Runs :
        /\ Before(r1, r2)
        /\ Returned_(r2)
        /\ workflow[r1].id = 6
        /\ execution[r1].status = "failed"
        /\ HasEntry(ReturnedLog(r1), "node_complete", "a")
        /\ workflow[r2].id = 8
        /\ execution[r2].status = "completed"
        /\ ~DictHas(ReturnedOutput(r2), "x")
        /\ ReturnedLog(r2)[1].data.node_id = "t"


(***************************************************************************)
(* C30: the input payload is read-only for the engine and the built-in     *)
(* handlers: from the moment the context exists context.input is the       *)
(* payload passed to execute() (the empty object when none was passed), in *)
(* every state of the run; the record's input_data is that payload from    *)
(* its creation on, in the object and in the committed row, and no step    *)
(* rewrites it or the caller's payload.                                    *)
(***************************************************************************)
\* the payload of run r's request, the empty object when the request has none
Payload(r) == IF input[r].given THEN input[r].d ELSE << >>

C30_InputReadOnly ==
    /\ [][\A r \in Runs :
            /\ input'[r] = input[r]
            /\ execution[r].status # "" => execution'[r].input_data = execution[r].input_data
            /\ db[r].status # "" => db'[r].input_data = db[r].input_data]_vars
    /\ [](\A r \in Runs :
            /\ pc[r] \in {"node", "await", "edges", "complete", "except", "save", "returned"} =>
                    /\ context[exOf[r]].set
                    /\ context[exOf[r]].input = Payload(r)
            /\ execution[r].status # "" =>
                    /\ execution[r].input_data = Some(Dumps(Payload(r)))
                    /\ db[r].input_data = Some(Dumps(Payload(r))))

\* a run with a payload went through set_variable, send_email, push, log and transform
\* nodes and returned
C30_Witness ==
    \E r \in Runs :
        /\ Returned_(r)
        /\ input[r].given
        /\ workflow[r].id = 7
        /\ execution[r].status = "completed"
        /\ HasEntry(ReturnedLog(r), "node_complete", "f")
        /\ context[exOf[r]].input = [k |-> VNum(7)]
        /\ Loads(execution[r].input_data.v) = [k |-> VNum(7)]


(***************************************************************************)
(* C31: get, list_all and list_by_category are read-only: no call of them, *)
(* and no step of an execution, changes the catalog, which stays what the  *)
(* register calls made it; each read returns what the catalog holds, so a  *)
(* lookup returns the same before and after any number of other lookups.   *)
(***************************************************************************)
C31_ReadsLeaveCatalog ==
    /\ [][/\ registry' = registry
          /\ \A id \in LookupIds : get(registry', id) = get(registry, id)
          /\ list_all(registry') = list_all(registry)
          /\ list_by_category(registry') = list_by_category(registry)]_vars
    /\ [](/\ registry = registered
          /\ listing.method = "get" => listing.returned = get(registered, listing.action_id)
          /\ listing.method = "list_all" => listing.returned = list_all(registered)
          /\ listing.method = "list_by_category" => listing.returned = list_by_category(registered))

\* an execution whose nodes looked their actions up has returned, and the catalog was
\* listed by category, an id that is not registered having been looked up or not
C31_Witness ==
    /\ Returned_(1)
    /\ execution[1].status = "completed"
    /\ listing.method = "list_by_category"
    /\ "custom" \in DOMAIN listing.returned
    /\ [id |-> "data.log"] \in listing.returned["custom"]
    /\ "never.registered" \notin DOMAIN registry


(***************************************************************************)
(* C32: there is no visited-node guard: a node is started once for every   *)
(* followed edge that leads into it, counted once per visit of the edge's  *)
(* source, so in a completed run of an acyclic workflow without condition  *)
(* nodes a node is started once per path leading to it from the trigger; a *)
(* join node reached through two branches or two duplicate edges is        *)
(* started twice, its handler runs twice, its successors run twice.        *)
(***************************************************************************)
\* the (edge into the node, completed visit of the edge's source after which the edge
\* is followed) pairs
FollowedInto(log, wf, node_id) ==
    { p \in (1..Len(wf.edges)) \X (1..Len(log)) :
        /\ wf.edges[p[1]].target = node_id
        /\ log[p[2]].event = "node_complete"
        /\ log[p[2]].data.node_id = wf.edges[p[1]].source
        /\ TypeOfId(wf, wf.edges[p[1]].source) = "condition" =>
                HandleMatches(wf.edges[p[1]].sourceHandle, ReportedTrue(log[p[2]])) }

RECURSIVE PathsTo(_, _, _), PathsThrough(_, _, _, _)
\* the number of edge paths from node i to the node with this id
PathsTo(wf, i, node_id) ==
    (IF wf.nodes[i].id = node_id THEN 1 ELSE 0)
        + (IF wf.nodes[i].type = "output" THEN 0 ELSE PathsThrough(wf, wf.nodes[i].id, 1, node_id))
\* the same through the edges k, k + 1, ... of a node
PathsThrough(wf, source, k, node_id) ==
    IF k > Len(EdgesOutOf(wf, source)) THEN 0
    ELSE (IF FirstWithId(wf, EdgesOutOf(wf, source)[k].target) = 0 THEN 0
          ELSE PathsTo(wf, FirstWithId(wf, EdgesOutOf(wf, source)[k].target), node_id))
         + PathsThrough(wf, source, k + 1, node_id)

Completions(log, node_id) ==
    Cardinality({ i \in 1..Len(log) : log[i].event = "node_complete" /\ log[i].data.node_id = node_id })

DistinctIds(wf) == \A i, j \in 1..Len(wf.nodes) : wf.nodes[i].id = wf.nodes[j].id => i = j

C32_OncePerPath ==
    \A r \in Runs :
        (Returned_(r) /\ execution[r].status = "completed" /\ DistinctIds(workflow[r])) =>
            /\ \A n \in NodeIds(workflow[r]) :
                  Starts(ReturnedLog(r), n) =
                      (IF n = workflow[r].nodes[FirstTriggerIndex(workflow[r])].id THEN 1 ELSE 0)
                          + Cardinality(FollowedInto(ReturnedLog(r), workflow[r], n))
            /\ (NoConditionNode(workflow[r]) /\ ~CycleReachable(workflow[r])) =>
                  \A n \in NodeIds(workflow[r]) :
                      /\ Starts(ReturnedLog(r), n)
                            = PathsTo(workflow[r], FirstTriggerIndex(workflow[r]), n)
                      /\ TypeOfId(workflow[r], n) # "output" =>
                            Completions(ReturnedLog(r), n)
                                = PathsTo(workflow[r], FirstTriggerIndex(workflow[r]), n)

\* the join node l of a diamond was started and completed twice, and so was what
\* follows it
C32_Witness ==
    \E r \in Runs :
        /\ Returned_(r)
        /\ workflow[r].id = 26
        /\ execution[r].status = "completed"
        /\ Starts(ReturnedLog(r), "a") = 1
        /\ Starts(ReturnedLog(r), "b") = 1
        /\ Starts(ReturnedLog(r), "l") = 2
        /\ Completions(ReturnedLog(r), "l") = 2
        /\ Starts(ReturnedLog(r), "o") = 2


(***************************************************************************)
(* C33: an edge whose target id matches no node of the workflow is skipped *)
(* silently: the step that meets it adds no log entry and raises nothing,  *)
(* the loop goes on with the next edge of the same source, no log entry    *)
(* ever names a node the workflow does not have, and the execution can     *)
(* still reach completed.                                                  *)
(***************************************************************************)
\* the edge loop of the innermost call is at an edge whose target matches no node
AtDanglingEdge(r) ==
    /\ pc[r] = "edges"
    /\ running = r
    /\ Top(stack[r]).ei <= Len(EdgesOutOf(workflow[r], workflow[r].nodes[Top(stack[r]).node].id))
    /\ EdgesOutOf(workflow[r], workflow[r].nodes[Top(stack[r]).node].id)[Top(stack[r]).ei].target
            \notin NodeIds(workflow[r])

C33_DanglingEdgeSkipped ==
    /\ [][\A r \in Runs :
            (AtDanglingEdge(r) /\ Acts(r)) =>
                /\ LogOf(r)' = LogOf(r)
                /\ exc'[r] = NoExc
                /\ pc'[r] = "edges"
                /\ stack'[r] = SetTop(stack[r], [Top(stack[r]) EXCEPT !.ei = @ + 1])
                /\ execution'[r] = execution[r]
                /\ heap' = heap]_vars
    /\ [](\A r \in Runs : \A i \in 1..Len(LogOf(r)) :
            LogOf(r)[i].event \in {"node_start", "node_complete"} =>
                LogOf(r)[i].data.node_id \in NodeIds(workflow[r]))

\* the first edge of the trigger leads nowhere, the second one was followed and the
\* run completed without an error entry
C33_Witness ==
    \E r \in Runs :
        /\ Returned_(r)
        /\ Len(workflow[r].edges) = 2
        /\ workflow[r].edges[1] = Edge("t", "ghost", None)
        /\ workflow[r].edges[2] = Edge("t", "a", None)
        /\ execution[r].status = "completed"
        /\ execution[r].error_message = Null
        /\ Starts(ReturnedLog(r), "a") = 1
        /\ ~HasEvent(ReturnedLog(r), "error")


(***************************************************************************)
(* C34: when execute() is called twice on the same WorkflowExecutor        *)
(* instance and the two runs overlap, each returned record contains only   *)
(* its own run's log entries and, in output_data, only its own run's       *)
(* variables.                                                              *)
(***************************************************************************)
C34_OverlapKeepsOwn ==
    \A r \in Runs :
        Returned_(r) =>
            /\ \A i \in 1..Len(ReturnedLog(r)) :
                  /\ ReturnedLog(r)[i].timestamp > execution[r].started_at
                  /\ ReturnedLog(r)[i].event \in {"node_start", "node_complete"} =>
                        ReturnedLog(r)[i].data.node_id \in NodeIds(workflow[r])
            /\ execution[r].status = "completed" =>
                  KeysOf(ReturnedOutput(r)) \subseteq OwnKeys(workflow[r])


(***************************************************************************)
(* C35 as stated: when a visited condition node has several outgoing edges *)
(* whose handle matches the evaluated result, every one of them is         *)
(* followed: in a returned record the target of each has been started.     *)
(***************************************************************************)
\* edge j leaves a condition node that completed exactly once, its handle matches the
\* result of that visit and its target exists
MatchingEdge(wf, log, j) ==
    /\ TypeOfId(wf, wf.edges[j].source) = "condition"
    /\ Completions(log, wf.edges[j].source) = 1
    /\ wf.edges[j].target \in NodeIds(wf)
    /\ \E i \in 1..Len(log) :
          /\ log[i].event = "node_complete"
          /\ log[i].data.node_id = wf.edges[j].source
          /\ HandleMatches(wf.edges[j].sourceHandle, ReportedTrue(log[i]))
\* two edges of the same condition node that both match
SeveralMatch(wf, log, j1, j2) ==
    /\ j1 < j2
    /\ wf.edges[j1].source = wf.edges[j2].source
    /\ MatchingEdge(wf, log, j1)
    /\ MatchingEdge(wf, log, j2)

C35_Original ==
    \A r \in Runs :
        Returned_(r) =>
            \A j1, j2 \in 1..Len(workflow[r].edges) :
                SeveralMatch(workflow[r], ReturnedLog(r), j1, j2) =>
                    /\ Starts(ReturnedLog(r), workflow[r].edges[j1].target) >= 1
                    /\ Starts(ReturnedLog(r), workflow[r].edges[j2].target) >= 1

(***************************************************************************)
(* C35 amended: when a visited condition node has several outgoing edges   *)
(* whose handle matches the evaluated result, the edge loop follows every  *)
(* one of them that it reaches, in edge-list order, each to completion     *)
(* before the next, and having several is no error; in a run that          *)
(* completes none is dropped.  A fatal error inside one of the branches    *)
(* aborts the run and the matching edges after it are not followed.        *)
(***************************************************************************)
\* the edge loop of the innermost call, on a condition node, is at an edge whose handle
\* matches the node's result and whose target exists
AtMatchingEdge(r) ==
    LET frame == Top(stack[r])
        out == EdgesOutOf(workflow[r], workflow[r].nodes[frame.node].id)
    IN /\ pc[r] = "edges"
       /\ running = r
       /\ workflow[r].nodes[frame.node].type = "condition"
       /\ frame.ei <= Len(out)
       /\ out[frame.ei].target \in NodeIds(workflow[r])
       /\ HandleMatches(out[frame.ei].sourceHandle, Truthy(Get(frame.result, "result", VBool(FALSE))))

FirstStart(log, node_id) ==
    CHOOSE i \in 1..Len(log) :
        /\ log[i].event = "node_start" /\ log[i].data.node_id = node_id
        /\ \A k \in 1..(i - 1) : ~(log[k].event = "node_start" /\ log[k].data.node_id = node_id)

C35_EveryMatchingEdge ==
    /\ [][\A r \in Runs :
            (AtMatchingEdge(r) /\ Acts(r)) =>
                IF Len(stack[r]) >= MaxDepth
                THEN pc'[r] = "except" /\ exc'[r].type = "RecursionError"
                ELSE /\ pc'[r] = "node"
                     /\ exc'[r] = NoExc
                     /\ Len(stack'[r]) = Len(stack[r]) + 1
                     /\ Top(stack'[r]).node =
                            FirstWithId(workflow[r],
                                EdgesOutOf(workflow[r], workflow[r].nodes[Top(stack[r]).node].id)
                                    [Top(stack[r]).ei].target)
                     /\ stack'[r][Len(stack[r])].ei = Top(stack[r]).ei + 1]_vars
    /\ [](\A r \in Runs :
            (Returned_(r) /\ execution[r].status = "completed") =>
                \A j1, j2 \in 1..Len(workflow[r].edges) :
                    SeveralMatch(workflow[r], ReturnedLog(r), j1, j2) =>
                        /\ Starts(ReturnedLog(r), workflow[r].edges[j1].target) >= 1
                        /\ Starts(ReturnedLog(r), workflow[r].edges[j2].target) >= 1
                        /\ workflow[r].edges[j1].target # workflow[r].edges[j2].target =>
                              FirstStart(ReturnedLog(r), workflow[r].edges[j1].target)
                                  < FirstStart(ReturnedLog(r), workflow[r].edges[j2].target))

\* both "true" edges of c were followed, o before o2
C35_Witness ==
    \E r \in Runs :
        /\ Returned_(r)
        /\ workflow[r].id = 9
        /\ execution[r].status = "completed"
        /\ SeveralMatch(workflow[r], ReturnedLog(r), 3, 4)
        /\ StartedIds(ReturnedLog(r)) = <<"t", "a", "c", "o", "o2">>


(***************************************************************************)
(* C36: a condition whose operator is none of ==, !=, >, <, >=, <=,        *)
(* contains evaluates to false without raising, so the edge loop of a      *)
(* condition node with such an operator follows an edge it reaches exactly *)
(* when the edge's handle is "false"; a condition with no operator given   *)
(* behaves as ==.                                                          *)
(***************************************************************************)
KnownOperators ==
    { VStr("=="), VStr("!="), VStr(">"), VStr("<"), VStr(">="), VStr("<="), VStr("contains") }
HasOperator(node) == "operator" \in DOMAIN node.config
UnknownOperator(node) ==
    /\ node.type = "condition"
    /\ HasOperator(node)
    /\ node.config.operator \notin KnownOperators
\* a condition without operator on two plain values
PlainWithoutOperator(node) ==
    /\ node.type = "condition"
    /\ ~HasOperator(node)
    /\ {"left", "right"} \subseteq DOMAIN node.config
    /\ ~(node.config.left.k = "str" /\ IsWrapped(node.config.left.s))
    /\ ~(node.config.right.k = "str" /\ IsWrapped(node.config.right.s))

\* the edge loop of the innermost call, on a condition node with an operator that is
\* not known, is at an edge whose target exists
AtEdgeOfUnknownOperator(r) ==
    LET frame == Top(stack[r])
        out == EdgesOutOf(workflow[r], workflow[r].nodes[frame.node].id)
    IN /\ pc[r] = "edges"
       /\ running = r
       /\ UnknownOperator(workflow[r].nodes[frame.node])
       /\ frame.ei <= Len(out)
       /\ out[frame.ei].target \in NodeIds(workflow[r])

C36_UnknownOperatorIsFalse ==
    /\ [](\A r \in Runs : \A i \in 1..Len(LogOf(r)) :
            /\ (LogOf(r)[i].event = "node_start" /\ pc[r] # "node"
                    /\ (UnknownOperator(NodeOf(workflow[r], LogOf(r)[i]))
                          \/ PlainWithoutOperator(NodeOf(workflow[r], LogOf(r)[i])))) =>
                  /\ i < Len(LogOf(r))
                  /\ LogOf(r)[i + 1].event = "node_complete"
                  /\ LogOf(r)[i + 1].data.node_id = LogOf(r)[i].data.node_id
            /\ (LogOf(r)[i].event = "node_complete"
                    /\ UnknownOperator(NodeOf(workflow[r], LogOf(r)[i]))) =>
                  LogOf(r)[i].data.result = [result |-> VBool(FALSE)]
            /\ (LogOf(r)[i].event = "node_complete"
                    /\ PlainWithoutOperator(NodeOf(workflow[r], LogOf(r)[i]))) =>
                  LogOf(r)[i].data.result =
                      [result |-> VBool(SameValue(NodeOf(workflow[r], LogOf(r)[i]).config.left,
                                                  NodeOf(workflow[r], LogOf(r)[i]).config.right))])
    /\ [][\A r \in Runs :
            (AtEdgeOfUnknownOperator(r) /\ Acts(r)) =>
                LET frame == Top(stack[r])
                    edge == EdgesOutOf(workflow[r], workflow[r].nodes[frame.node].id)[frame.ei]
                IN IF edge.sourceHandle = "false"
                   THEN /\ pc'[r] = "node"
                        /\ Top(stack'[r]).node = FirstWithId(workflow[r], edge.target)
                   ELSE /\ pc'[r] = "edges"
                        /\ stack'[r] = SetTop(stack[r], [frame EXCEPT !.ei = @ + 1])]_vars

\* 1 ~ 1 and "abc" => x were both false: only the "false" edges were followed, into c2
\* and then into b and o
C36_Witness ==
    \E r \in Runs :
        /\ Returned_(r)
        /\ workflow[r].id = 29
        /\ execution[r].status = "completed"
        /\ StartedIds(ReturnedLog(r)) = <<"t", "c", "c2", "b", "o">>


(***************************************************************************)
(* C37: a reachable node whose type is none of trigger, action, condition, *)
(* output is a pass-through, not an error: the step that executes it logs  *)
(* node_start and node_complete with an empty result, raises nothing and   *)
(* leaves the variables as they are, and its edge loop follows every edge  *)
(* it reaches whose target exists, so that in a run that completes all its *)
(* outgoing edges have been followed.                                      *)
(***************************************************************************)
KnownTypes == {"trigger", "action", "condition", "output"}
\* run r is about to execute a node of another type
AtOtherNode(r) ==
    /\ pc[r] = "node"
    /\ running = r
    /\ workflow[r].nodes[Top(stack[r]).node].type \notin KnownTypes
\* the edge loop of such a node is at an edge whose target exists
AtEdgeOfOtherNode(r) ==
    LET frame == Top(stack[r])
        out == EdgesOutOf(workflow[r], workflow[r].nodes[frame.node].id)
    IN /\ pc[r] = "edges"
       /\ running = r
       /\ workflow[r].nodes[frame.node].type \notin KnownTypes
       /\ frame.ei <= Len(out)
       /\ out[frame.ei].target \in NodeIds(workflow[r])

C37_OtherTypePassesThrough ==
    /\ [][\A r \in Runs :
            /\ (AtOtherNode(r) /\ Acts(r)) =>
                  LET node == workflow[r].nodes[Top(stack[r]).node]
                      n == Len(LogOf(r))
                  IN /\ Len(LogOf(r)') = n + 2
                     /\ SubSeq(LogOf(r)', 1, n) = LogOf(r)
                     /\ LogOf(r)'[n + 1].event = "node_start"
                     /\ LogOf(r)'[n + 1].data = [node_id |-> node.id, type |-> node.type, action |-> node.actionId]
                     /\ LogOf(r)'[n + 2].event = "node_complete"
                     /\ LogOf(r)'[n + 2].data = [node_id |-> node.id, result |-> << >>]
                     /\ heap' = heap
                     /\ exc'[r] = NoExc
                     /\ pc'[r] = "edges"
            /\ (AtEdgeOfOtherNode(r) /\ Acts(r)) =>
                  IF Len(stack[r]) >= MaxDepth
                  THEN pc'[r] = "except" /\ exc'[r].type = "RecursionError"
                  ELSE /\ pc'[r] = "node"
                       /\ Top(stack'[r]).node =
                            FirstWithId(workflow[r],
                                EdgesOutOf(workflow[r], workflow[r].nodes[Top(stack[r]).node].id)
                                    [Top(stack[r]).ei].target)]_vars
    /\ [](\A r \in Runs :
            (Returned_(r) /\ execution[r].status = "completed") =>
                \A j \in 1..Len(workflow[r].edges) :
                    (/\ TypeOfId(workflow[r], workflow[r].edges[j].source) \notin KnownTypes \cup {None}
                     /\ HasEntry(ReturnedLog(r), "node_complete", workflow[r].edges[j].source)
                     /\ workflow[r].edges[j].target \in NodeIds(workflow[r])) =>
                        Starts(ReturnedLog(r), workflow[r].edges[j].target) >= 1)

\* the note node n was passed through on the way to the output, leaving no variable
C37_Witness ==
    \E r \in Runs :
        /\ Returned_(r)
        /\ workflow[r].id = 24
        /\ execution[r].status = "completed"
        /\ StartedIds(ReturnedLog(r)) = <<"t", "a", "b", "n", "o">>
        /\ \E i \in 1..Len(ReturnedLog(r)) :
              /\ ReturnedLog(r)[i].event = "node_complete"
              /\ ReturnedLog(r)[i].data = [node_id |-> "n", result |-> << >>]
        /\ ~DictHas(ReturnedOutput(r), "_n_result")


(***************************************************************************)
(* C38: the log of every run is well-formed: each node_complete entry for  *)
(* node N is immediately preceded by the node_start entry for N, each      *)
(* output event is immediately preceded by the node_start of an output     *)
(* node, which gets no node_complete, and in the returned log the number   *)
(* of node_start entries equals the number of node_complete entries plus   *)
(* output events, plus one when the run failed inside a node.              *)
(***************************************************************************)
\* number of entries of one event
EntriesOf(log, event) == Cardinality({ i \in 1..Len(log) : log[i].event = event })
\* the run failed between the node_start and the node_complete of a node: the
\* failure is neither the missing trigger (line 59) nor the recursion limit hit
\* at the call of line 181
FailedInsideNode(r) ==
    /\ execution[r].status = "failed"
    /\ execution[r].error_message.v \notin {<<"No trigger node found in workflow">>, RecursionErrorMessage}
WellFormed(log) ==
    \A i \in 1..Len(log) :
        /\ log[i].event = "node_complete" =>
              /\ i > 1
              /\ log[i - 1].event = "node_start"
              /\ log[i - 1].data.node_id = log[i].data.node_id
        /\ log[i].event = "output" =>
              /\ i > 1
              /\ log[i - 1].event = "node_start"
              /\ log[i - 1].data.type = "output"
        /\ (log[i].event = "node_start" /\ log[i].data.type = "output" /\ i < Len(log)) =>
              log[i + 1].event = "output"

ExecutionRecords == { db[r] : r \in { q \in Runs : db[q] # NoExecution } }
ExistsAndActive(r) == workflow[r] # NoRow /\ workflow[r].is_active

C39_RecordOnlyWhenActive ==
    /\ [][\A r \in Runs :
            (pc[r] = "idle" /\ pc'[r] # "idle") =>
                IF ExistsAndActive(r)
                THEN /\ pc'[r] = "init"
                     /\ db'[r].status = "running"
                     /\ db'[r].workflow_id = workflow[r].id
                     /\ ExecutionRecords' = ExecutionRecords \cup {db'[r]}
                     /\ db'[r] \notin ExecutionRecords
                ELSE /\ pc'[r] = "rejected"
                     /\ exc'[r].type = "HTTPException"
                     /\ exc'[r].msg[1] = (IF workflow[r] = NoRow THEN "404" ELSE "400")
                     /\ ExecutionRecords' = ExecutionRecords
                     /\ db' = db
                     /\ execution' = execution
                     /\ context' = context
                     /\ execution_log' = execution_log
                     /\ running' = running]_vars
    /\ [](\A r \in Runs :
            /\ (db[r] # NoExecution \/ execution[r] # NoExecution \/ context[exOf[r]].set) =>
                  ExistsAndActive(r)
            /\ pc[r] = "rejected" =>
                  /\ ~ExistsAndActive(r)
                  /\ db[r] = NoExecution
                  /\ execution[r] = NoExecution
                  /\ stack[r] = << >>)

\* the request for an inactive workflow was rejected while another request ran to
\* its end: only that one has a record
C39_Witness ==
    \E r, q \in Runs :
        /\ pc[r] = "rejected"
        /\ workflow[r] # NoRow
        /\ ~workflow[r].is_active
        /\ exc[r].msg = <<"400", "Workflow is not active">>
        /\ Returned_(q)
        /\ Cardinality(ExecutionRecords) = 1

====
